---- MODULE Spec2Model ----
(***************************************************************************)
(* Model of the PDF tool extension: the PDF-lib operations module, the     *)
(* page-reconstruction redaction module, the popup script that applies     *)
(* mutations to state.pdfDoc and refreshes state.pdfJsDoc, and the lazy    *)
(* render scheduler of the continuous-scroll viewer.                       *)
(*                                                                         *)
(* A document is a sequence of pages.  A page is a record                  *)
(*   [w, h, rot, objs]                                                     *)
(* with w, h the declared (unrotated) size in points, rot the absolute     *)
(* rotation and objs the sequence of drawn objects, bottom-most first.     *)
(* An object is [kind, px] where px maps each cell of a 2 x 2 grid of the  *)
(* page (normalised quadrants, <<column, row>>, origin top-left of the     *)
(* unrotated page) to the value drawn there, or to None where the object   *)
(* does not paint.  JavaScript numbers are modelled as exact rationals on  *)
(* inputs for which the arithmetic is exact.                               *)
(***************************************************************************)
EXTENDS Integers, Sequences, FiniteSets, TLC

\* ------------------------------------------------------------------------
\* Bounds of the model (not program constants)
\* ------------------------------------------------------------------------
MaxPages == 2

MaxRequests == 2

MaxInFlight == 2

\* documents handed to one call of an operation of the PDF operations module
MaxDocs == 2

\* length of an index list handed to an operation
MaxLen == 2

\* pages of a document handed to an operation
MaxOpPages == 3

\* ------------------------------------------------------------------------
\* Program constants
\* ------------------------------------------------------------------------
\* RENDER_SCALE = 2.5, kept as the integer 2 * RENDER_SCALE
RENDER_SCALE_X2 == 5

\* maxWidth default of renderPageForRedaction
REDACT_MAX_WIDTH == 500

\* a drawn box is kept only if width > 5 and height > 5
MIN_BOX_SIZE == 5

None == <<"none">>

Black == <<"black">>

Blank == <<"blank">>

Cells == {<<0, 0>>, <<1, 0>>, <<0, 1>>, <<1, 1>>}

Rotations == {0, 90, 180, 270}

\* ------------------------------------------------------------------------
\* Helpers
\* ------------------------------------------------------------------------
\* JavaScript's % operator: the result has the sign of the dividend
JsMod(a, b) == IF a >= 0 THEN a % b ELSE 0 - ((0 - a) % b)

Min(a, b) == IF a <= b THEN a ELSE b

Max(a, b) == IF a >= b THEN a ELSE b

RemoveAt(s, i) == [k \in 1..(Len(s) - 1) |-> IF k < i THEN s[k] ELSE s[k + 1]]

InsertAt(s, i, e) ==
  [k \in 1..(Len(s) + 1) |-> IF k < i THEN s[k] ELSE IF k = i THEN e ELSE s[k - 1]]

RECURSIVE InsertSorted(_, _, _)
InsertSorted(e, s, desc) ==
  IF s = <<>> THEN <<e>>
  ELSE IF (desc /\ e >= s[1]) \/ (~desc /\ e < s[1]) THEN <<e>> \o s
  ELSE <<s[1]>> \o InsertSorted(e, Tail(s), desc)

RECURSIVE SortNums(_, _)
SortNums(s, desc) ==
  IF s = <<>> THEN <<>> ELSE InsertSorted(s[1], SortNums(Tail(s), desc), desc)

\* Array.prototype.sort((a, b) => b - a)
SortDesc(s) == SortNums(s, TRUE)

\* Array.prototype.sort((a, b) => a - b)
SortAsc(s) == SortNums(s, FALSE)

\* ------------------------------------------------------------------------
\* Pages and their content
\* ------------------------------------------------------------------------
\* Declared size of the page with content identity id
SizeOf(id) ==
  CASE id = 1 -> [w |-> 500, h |-> 500]
    [] id = 2 -> [w |-> 250, h |-> 500]
    [] id = 3 -> [w |-> 1000, h |-> 500]
    [] OTHER  -> [w |-> 500, h |-> 1000]

\* The vector/text content of source page id: every cell holds a value that
\* names the page and the cell, so that moving or turning content is visible
VecObj(id) == [kind |-> "vec", px |-> [c \in Cells |-> <<"c", id, c[1], c[2]>>]]

SrcPage(id) ==
  [w |-> SizeOf(id).w, h |-> SizeOf(id).h, rot |-> 0, objs |-> <<VecObj(id)>>]

\* ------------------------------------------------------------------------
\* PDF operations module (PDF-lib)
\* ------------------------------------------------------------------------
getPageCount(pdfDoc) == Len(pdfDoc)

\* pdfDoc.getPage(i) throws when i is not a valid index
ValidIndex(pdfDoc, pageIndex) == pageIndex >= 0 /\ pageIndex < Len(pdfDoc)

\* Faulty variant of the operation below: the sum is stored as it is
rotatePage_NoWrap(pdfDoc, pageIndex, degrees) ==
  [pdfDoc EXCEPT ![pageIndex + 1].rot = @ + degrees]

\* Faulty variant of the operation below: the angle asked for is stored in
\* place of the angle of the page turned by it
rotatePage_SetsDelta(pdfDoc, pageIndex, degrees) ==
  [pdfDoc EXCEPT ![pageIndex + 1].rot = JsMod(degrees + 360, 360)]

rotatePage(pdfDoc, pageIndex, degrees) ==
  LET currentRotation == pdfDoc[pageIndex + 1].rot
      newRotation == JsMod(currentRotation + degrees + 360, 360)
  IN [pdfDoc EXCEPT ![pageIndex + 1].rot = newRotation]

RECURSIVE RemoveEach(_, _)
RemoveEach(pdfDoc, sortedIndices) ==
  IF sortedIndices = <<>> THEN pdfDoc
  ELSE LET index == sortedIndices[1]
           next == IF index >= 0 /\ index < Len(pdfDoc)
                   THEN RemoveAt(pdfDoc, index + 1)
                   ELSE pdfDoc
       IN RemoveEach(next, Tail(sortedIndices))

\* Faulty variant of the operation below: the last page is removed, whatever page
\* is named
deletePages_Last(pdfDoc, pageIndices) ==
  IF pageIndices = <<>> THEN pdfDoc ELSE RemoveAt(pdfDoc, Len(pdfDoc))

deletePages(pdfDoc, pageIndices) == RemoveEach(pdfDoc, SortDesc(pageIndices))

\* newPdfDoc.copyPages(pdfDoc, [i]) rejects when i is not a page of pdfDoc
CopyFails(pdfDoc, indices) ==
  \E k \in 1..Len(indices) : ~ValidIndex(pdfDoc, indices[k])

\* Faulty variant of the operation below: the copies come back in the
\* reverse of the order asked for
copyPages_Reversed(pdfDoc, indices) ==
  [k \in 1..Len(indices) |-> pdfDoc[indices[Len(indices) + 1 - k] + 1]]

copyPages(pdfDoc, indices) == [k \in 1..Len(indices) |-> pdfDoc[indices[k] + 1]]

\* Faulty variant of the operation below: the pages are copied in document
\* order, whatever order is asked for
reorderPages_Sorted(pdfDoc, newOrder) == copyPages(pdfDoc, SortAsc(newOrder))

reorderPages(pdfDoc, newOrder) == copyPages(pdfDoc, newOrder)

extractPages(pdfDoc, pageIndices) == copyPages(pdfDoc, SortAsc(pageIndices))

RECURSIVE mergePDFs(_)
mergePDFs(pdfDocs) ==
  IF pdfDocs = <<>> THEN <<>>
  ELSE copyPages(pdfDocs[1], [i \in 1..Len(pdfDocs[1]) |-> i - 1])
         \o mergePDFs(Tail(pdfDocs))

\* Faulty variant of the operation below: the loop runs from the last page
\* to the first
splitPDF_Backwards(pdfDoc) ==
  [i \in 1..Len(pdfDoc) |-> copyPages(pdfDoc, <<Len(pdfDoc) - i>>)]

splitPDF(pdfDoc) == [i \in 1..Len(pdfDoc) |-> copyPages(pdfDoc, <<i - 1>>)]

getPageDimensions(pdfDoc, pageIndex) ==
  LET page == pdfDoc[pageIndex + 1]
  IN IF page.rot = 90 \/ page.rot = 270
     THEN [width |-> page.h, height |-> page.w]
     ELSE [width |-> page.w, height |-> page.h]

\* The image object drawn by page.drawImage(img, {x: 0, y: 0, width, height}):
\* the whole bitmap stretched over the whole page
ImgObj(image) == [kind |-> "img", px |-> image.px]

\* Faulty variant of the operation below: the image page is added at the end
\* of the document instead of at the index of the page it replaces
replacePageWithImage_AtEnd(pdfDoc, pageIndex, image) ==
  LET page == pdfDoc[pageIndex + 1]
      removed == RemoveAt(pdfDoc, pageIndex + 1)
      newPage == [w |-> page.w, h |-> page.h, rot |-> 0, objs |-> <<ImgObj(image)>>]
  IN Append(removed, newPage)

\* Faulty variant of the operation below: the image is drawn over the page as
\* it is, nothing is removed
replacePageWithImage_Layered(pdfDoc, pageIndex, image) ==
  [pdfDoc EXCEPT ![pageIndex + 1].objs = Append(@, ImgObj(image))]

\* Faulty variant of the operation below: images the page already holds are
\* carried over to the new page
IsImage(obj) == obj.kind = "img"

replacePageWithImage_KeepsImages(pdfDoc, pageIndex, image) ==
  LET page == pdfDoc[pageIndex + 1]
      removed == RemoveAt(pdfDoc, pageIndex + 1)
      newPage == [w |-> page.w, h |-> page.h, rot |-> 0,
                  objs |-> Append(SelectSeq(page.objs, IsImage), ImgObj(image))]
  IN InsertAt(removed, pageIndex + 1, newPage)

replacePageWithImage(pdfDoc, pageIndex, image) ==
  LET page == pdfDoc[pageIndex + 1]
      removed == RemoveAt(pdfDoc, pageIndex + 1)
      newPage == [w |-> page.w, h |-> page.h, rot |-> 0, objs |-> <<ImgObj(image)>>]
  IN InsertAt(removed, pageIndex + 1, newPage)

\* page.drawImage(img, {x, y, width, height}) of a stamp that paints cells
StampObj(stampId, cells) ==
  [kind |-> "stamp", px |-> [c \in Cells |-> IF c \in cells THEN <<"sig", stampId>> ELSE None]]

\* Faulty variant of the operation below: the image takes the place of what
\* the page held
insertImageOnPage_Alone(pdfDoc, pageIndex, stampId, cells) ==
  [pdfDoc EXCEPT ![pageIndex + 1].objs = <<StampObj(stampId, cells)>>]

insertImageOnPage(pdfDoc, pageIndex, stampId, cells) ==
  [pdfDoc EXCEPT ![pageIndex + 1].objs = Append(@, StampObj(stampId, cells))]

\* pdfDoc.save(): the serialised bytes, known here by the pages they encode
save(pdfDoc) == [format |-> "pdf", pages |-> pdfDoc]

\* PDFLib.PDFDocument.load(bytes)
loadPDFDocument(bytes) == bytes.pages

\* copyPDFDocument: save() then PDFDocument.load(): a new document object
copyPDFDocument(pdfDoc) == loadPDFDocument(save(pdfDoc))

\* ------------------------------------------------------------------------
\* PDF.js: opening the saved bytes for preview and rasterising a page
\* ------------------------------------------------------------------------
\* The cell of the unrotated page shown at cell <<i, j>> of the viewport
PageCellAt(rot, c) ==
  CASE rot = 0   -> c
    [] rot = 90  -> <<c[2], 1 - c[1]>>
    [] rot = 180 -> <<1 - c[1], 1 - c[2]>>
    [] rot = 270 -> <<1 - c[2], c[1]>>

RECURSIVE TopValue(_, _)
TopValue(objs, c) ==
  IF objs = <<>> THEN Blank
  ELSE IF objs[Len(objs)].px[c] # None THEN objs[Len(objs)].px[c]
  ELSE TopValue(SubSeq(objs, 1, Len(objs) - 1), c)

\* A PDF.js page: the viewport at scale 1 and what it shows
getPage(page) ==
  [vw |-> IF page.rot \in {90, 270} THEN page.h ELSE page.w,
   vh |-> IF page.rot \in {90, 270} THEN page.w ELSE page.h,
   rot |-> page.rot,
   px |-> [c \in Cells |-> TopValue(page.objs, PageCellAt(page.rot, c))]]

\* pdfjsLib.getDocument({data: bytes}) of the bytes written by pdfDoc.save()
getDocument(bytes) == [i \in 1..Len(bytes.pages) |-> getPage(bytes.pages[i])]

\* ------------------------------------------------------------------------
\* Redaction module
\* ------------------------------------------------------------------------
\* renderPageToCanvas(pdfJsPage, RENDER_SCALE): canvas.width = viewport.width
\* at scale 2.5; the canvas size is kept doubled (width2 = 2 * canvas.width)
renderPageToCanvas(pdfJsPage) ==
  [width2 |-> pdfJsPage.vw * RENDER_SCALE_X2,
   height2 |-> pdfJsPage.vh * RENDER_SCALE_X2,
   px |-> pdfJsPage.px]

\* The rectangle handed to ctx.fillRect for a box, times 2
FillRect2(box) ==
  [x |-> box.x * RENDER_SCALE_X2, y |-> box.y * RENDER_SCALE_X2,
   width |-> box.width * RENDER_SCALE_X2, height |-> box.height * RENDER_SCALE_X2]

\* A cell of the canvas is opaque black once a filled rectangle covers all
\* of it (coordinates times 4 to stay integral)
CellCovered(canvas, rect2, c) ==
  /\ 2 * rect2.x <= c[1] * canvas.width2
  /\ 2 * (rect2.x + rect2.width) >= (c[1] + 1) * canvas.width2
  /\ 2 * rect2.y <= c[2] * canvas.height2
  /\ 2 * (rect2.y + rect2.height) >= (c[2] + 1) * canvas.height2

applyRedactionBoxesToCanvas(canvas, boxes) ==
  [canvas EXCEPT !.px =
     [c \in Cells |->
        IF \E k \in 1..Len(boxes) : CellCovered(canvas, FillRect2(boxes[k]), c)
        THEN Black ELSE canvas.px[c]]]

\* canvas.toBlob(..., 'image/png'): lossless
canvasToImageBytes(canvas) == [px |-> canvas.px]

applyRedactionToPage(pdfDoc, pdfJsPage, pageIndex, boxes) ==
  IF boxes = <<>> THEN pdfDoc
  ELSE replacePageWithImage(pdfDoc, pageIndex,
         canvasToImageBytes(
           applyRedactionBoxesToCanvas(renderPageToCanvas(pdfJsPage), boxes)))

\* validateRedactionBoxes: boxes without area are dropped, the others are
\* clipped to the page and dropped when nothing is left of them
HasArea(box) == box.width > 0 /\ box.height > 0

ClipBox(box, pageWidth, pageHeight) ==
  LET x == Max(0, box.x)
      y == Max(0, box.y)
  IN [x |-> x, y |-> y,
      width |-> Min(box.width, pageWidth - x),
      height |-> Min(box.height, pageHeight - y)]

validateRedactionBoxes(boxes, pageWidth, pageHeight) ==
  LET kept == SelectSeq(boxes, HasArea)
      clipped == [k \in 1..Len(kept) |-> ClipBox(kept[k], pageWidth, pageHeight)]
  IN SelectSeq(clipped, HasArea)

\* ------------------------------------------------------------------------
\* UI handler: the canvas a page is shown on while boxes are drawn
\* ------------------------------------------------------------------------
\* renderPageForRedaction: scale = maxWidth / baseViewport.width; the scale
\* is kept as the fraction num / den
renderPageForRedaction(pdfJsPage) ==
  [num |-> REDACT_MAX_WIDTH, den |-> pdfJsPage.vw,
   width |-> REDACT_MAX_WIDTH,
   height |-> (pdfJsPage.vh * REDACT_MAX_WIDTH) \div pdfJsPage.vw]

\* setupRedactionDrawing, mouseup: the box is kept when it is large enough
BoxKept(box) == box.width > MIN_BOX_SIZE /\ box.height > MIN_BOX_SIZE

\* Boxes a user drags over an overlay canvas: its left half, its top half
LeftHalf(overlay) ==
  [x |-> 0, y |-> 0, width |-> overlay.width \div 2, height |-> overlay.height]

TopHalf(overlay) ==
  [x |-> 0, y |-> 0, width |-> overlay.width, height |-> overlay.height \div 2]

DragChoices(overlay) == {LeftHalf(overlay), TopHalf(overlay)}

\* ------------------------------------------------------------------------
\* Popup script: state and requests in flight
\* ------------------------------------------------------------------------
VARIABLES
  docs,              \* the PDF-lib document objects created so far
  pdfDoc,            \* state.pdfDoc: index into docs
  pdfJsDoc,          \* state.pdfJsDoc
  redactionBoxes,    \* state.redactionBoxes: page index -> boxes
  currentRedactPage, \* state.currentRedactPage
  listeners,         \* the drawing listeners of elements.redactOverlayCanvas
  reqs,              \* handlers suspended at an await / promise
  nreq,              \* number of requests issued
  last               \* outcome of the request that ended last

\* Viewer (render scheduler)
VARIABLES
  viewerDoc,         \* state.pdfJsDoc of the viewer: the revision it shows
  totalPages,        \* state.totalPages
  scale,             \* state.scale
  canvas,            \* what the page canvas of each current wrapper shows
  renderedPages,     \* state.renderedPages
  renderQueue,       \* state.renderQueue
  isRendering,       \* state.isRendering
  jobs,              \* renderPage calls whose promise is pending
  timers,            \* pending setTimeout(renderVisiblePages, 100)
  resizes,           \* wrappers whose applyScale getPage callback is pending
  pendingObs,        \* wrappers whose IntersectionObserver entry is to be delivered
  visible,           \* pages inside the viewport plus RENDER_MARGIN
  nEvents            \* number of refreshes, zoom changes and scrolls so far

\* Box coordinates: popup redaction page and Viewer overlay
VARIABLES
  shownPage,         \* the PDF.js page on display
  drawn,             \* boxes drawn on the overlay canvas of the popup
  painted,           \* the redaction canvas after the boxes were filled
  zoom,              \* Viewer.scale
  viewerBoxes,       \* Viewer.redactionBoxes[pageNum]
  drawnAt,           \* for each Viewer box, the scale it was drawn at
  boxesForPDF        \* last result of getRedactionBoxesForPDF, times 2

\* Redaction of a page of two documents
VARIABLES
  docA,              \* a PDF-lib document
  docB,              \* the same document with other content under the boxes
  twinPage,          \* index of the page to redact
  twinBoxes,         \* boxes, in points of the viewport at scale 1
  twinDiff,          \* the cells of the page where docB differs from docA
  twinPc             \* "ready", then "redacted"

\* Calls of the PDF operations module
VARIABLES
  opDocs,            \* the documents handed to the operation, as they are now
  opBefore,          \* the same documents before the call
  opArg,             \* the index list handed to the operation
  opOut,             \* the document the operation returned
  opPc               \* "ready", then the outcome of the call

\* Loading a file into the popup
VARIABLES
  pdfData,           \* state.pdfData: the file whose bytes were read last
  fileName,          \* state.fileName
  loadedDoc,         \* state.pdfDoc while files are loaded, with its file
  loadedJsDoc,       \* state.pdfJsDoc while files are loaded, with its file
  uploadShown,       \* the upload area is on display
  loads,             \* loadPDF calls whose promise chain is pending
  nLoads,            \* number of loadPDF calls so far
  loadLast           \* outcome of the loadPDF call that ended last

\* Placing a signature on a page on display
VARIABLES
  sigPage,           \* the PDF.js page the signature is placed on
  sigZoom,           \* state.scale / Viewer.scale of the viewer
  sigRect,           \* the signature preview, in pixels from the top left
  sigOut             \* what the placement getter called last returned

\* The signature library
VARIABLES
  store,             \* browser.storage.local: the list under 'signatures'
  sigCalls,          \* signature manager calls suspended at an await
  nCalls,            \* number of signature manager calls so far
  callLast           \* outcome of the call that ended last

appVars ==
  <<docs, pdfDoc, pdfJsDoc, redactionBoxes, currentRedactPage, listeners, reqs,
    nreq, last>>

viewerVars == <<viewerDoc, totalPages, scale, canvas, renderedPages, renderQueue,
                isRendering, jobs, timers, resizes, pendingObs, visible, nEvents>>

boxVars == <<shownPage, drawn, painted, zoom, viewerBoxes, drawnAt, boxesForPDF>>

twinVars == <<docA, docB, twinPage, twinBoxes, twinDiff, twinPc>>

opsVars == <<opDocs, opBefore, opArg, opOut, opPc>>

loadVars == <<pdfData, fileName, loadedDoc, loadedJsDoc, uploadShown, loads,
              nLoads, loadLast>>

sigVars == <<sigPage, sigZoom, sigRect, sigOut>>

storeVars == <<store, sigCalls, nCalls, callLast>>

vars == <<appVars, viewerVars, boxVars, twinVars, opsVars, loadVars, sigVars,
          storeVars>>

notApp ==
  <<viewerVars, boxVars, twinVars, opsVars, loadVars, sigVars, storeVars>>

notViewer ==
  <<appVars, boxVars, twinVars, opsVars, loadVars, sigVars, storeVars>>

notBox ==
  <<appVars, viewerVars, twinVars, opsVars, loadVars, sigVars, storeVars>>

notTwin ==
  <<appVars, viewerVars, boxVars, opsVars, loadVars, sigVars, storeVars>>

notOps ==
  <<appVars, viewerVars, boxVars, twinVars, loadVars, sigVars, storeVars>>

notLoad ==
  <<appVars, viewerVars, boxVars, twinVars, opsVars, sigVars, storeVars>>

notStore == <<appVars, viewerVars, boxVars, twinVars, opsVars, loadVars, sigVars>>

notSig ==
  <<appVars, viewerVars, boxVars, twinVars, opsVars, loadVars, storeVars>>

MutationOps == {"rotate", "delete", "reorder", "merge", "stamp"}

PageIndices == 0..(MaxPages - 1)

NoBoxes == [i \in PageIndices |-> <<>>]

\* The file picked for merging: a one-page PDF, or a file that does not load
MergeFiles == {"pdf", "bad"}

MergeDoc == <<SrcPage(4)>>

InitDocs == {[i \in 1..n |-> SrcPage(i)] : n \in 1..MaxPages}

\* Document objects are kept in slots; a slot no handler and no state field
\* refers to is garbage and is emptied
HeapSize == MaxInFlight + 2

Slots == 1..HeapSize

Referenced(p, rs) == {p} \cup {rs[j].doc : j \in 1..Len(rs)}

Collect(d, p, rs) == [i \in Slots |-> IF i \in Referenced(p, rs) THEN d[i] ELSE <<>>]

FreeSlot == CHOOSE i \in Slots :
              /\ i \notin Referenced(pdfDoc, reqs)
              /\ \A j \in Slots : j \notin Referenced(pdfDoc, reqs) => i <= j

NoOutcome ==
  [op |-> "none", status |-> "none", step |-> "none", unchanged |-> TRUE,
   overlap |-> FALSE, done |-> {}, failed |-> {}, skipped |-> {}, muts |-> 0]

\* The listeners setupRedactionDrawing has added to the overlay canvas, none
\* of which is ever removed: n[p] counts those whose boxes array is the array
\* state.redactionBoxes[p] holds now, last is the page of the array held by
\* the listener added last (NoPage when that array is held by no page)
NoPage == 0 - 1

NoListeners == [n |-> [p \in PageIndices |-> 0], last |-> NoPage]

\* renderRedactionPage() with state.currentRedactPage = page, on the
\* listeners ls: getPage rejects for a page the preview does not have;
\* otherwise setupRedactionDrawing adds listeners on the array of the page
renderRedactionPage(ls, page, preview) ==
  IF page >= Len(preview) THEN ls
  ELSE [n |-> [ls.n EXCEPT ![page] = @ + 1], last |-> page]

\* state.redactionBoxes[page] = [] : the listeners of the old array are
\* listeners of no page's array any more
NewArray(ls, page) ==
  [n |-> [ls.n EXCEPT ![page] = 0],
   last |-> IF ls.last = page THEN NoPage ELSE ls.last]

AppInit ==
  /\ docs \in {[i \in Slots |-> IF i = 1 THEN d ELSE <<>>] : d \in InitDocs}
  /\ pdfDoc = 1
  /\ pdfJsDoc = getDocument(save(docs[1]))
  /\ redactionBoxes = NoBoxes
  /\ currentRedactPage = 0
  /\ listeners = renderRedactionPage(NoListeners, 0, pdfJsDoc)
  /\ reqs = <<>>
  /\ nreq = 0
  /\ last = NoOutcome

CanStart == nreq < MaxRequests /\ Len(reqs) < MaxInFlight

Req(op, pc) ==
  [op |-> op, pc |-> pc, doc |-> pdfDoc, order |-> <<>>, arg |-> "none",
   page |-> 0, cells |-> {}, jsdoc |-> <<>>, boxes |-> NoBoxes, left |-> <<>>,
   done |-> {}, bytes |-> save(<<>>), before |-> docs[pdfDoc],
   overlap |-> reqs # <<>>, muts |-> 0]

\* 1 when a step that leaves the documents d with d[p] the current one gives
\* the current document other pages than it has now, else 0; the field muts
\* of a request counts such steps of its handler
Mutated(d, p) == IF d[p] # docs[pdfDoc] THEN 1 ELSE 0

\* A handler is entered: it runs up to its first suspension; the outcome
\* recorded for the handler that ended last is forgotten
Started(r) ==
  /\ reqs' = Append([k \in 1..Len(reqs) |-> [reqs[k] EXCEPT !.overlap = TRUE]], r)
  /\ nreq' = nreq + 1
  /\ last' = NoOutcome

Outcome(r, status, step, after) ==
  [op |-> r.op, status |-> status, step |-> step, unchanged |-> (after = r.before),
   overlap |-> r.overlap, done |-> r.done,
   failed |-> IF r.op = "redact" /\ step = "raster" THEN {Head(r.left)} ELSE {},
   skipped |-> IF r.op = "redact" /\ step = "raster"
               THEN {r.left[j] : j \in 2..Len(r.left)} ELSE {},
   muts |-> r.muts]

\* The handler of request k ends (its last callback, .catch or .finally ran);
\* no step that ends a handler changes a document object
Ended(k, status, step) ==
  /\ last' = Outcome(reqs[k], status, step, docs[pdfDoc])
  /\ reqs' = RemoveAt(reqs, k)
  /\ docs' = Collect(docs, pdfDoc, reqs')
  /\ UNCHANGED <<pdfDoc, nreq>>

\* A handler that ends before its first suspension
EndedAtOnce(op, status, step) ==
  /\ last' = Outcome(Req(op, "none"), status, step, docs[pdfDoc])
  /\ nreq' = nreq + 1
  /\ UNCHANGED <<docs, pdfDoc, reqs>>

\* A step of request k that goes on with the record r and the documents d
Continued(k, r, d) ==
  /\ reqs' = [reqs EXCEPT ![k] = [r EXCEPT !.muts = @ + Mutated(d, pdfDoc')]]
  /\ docs' = Collect(d, pdfDoc', reqs')
  /\ UNCHANGED <<nreq, last>>

\* ------------------------------------------------------------------------
\* Popup script: rotate and delete (the document object is changed in place)
\* ------------------------------------------------------------------------
\* handleRotatePage(pageIndex), up to state.pdfDoc.save(); the page index is
\* that of a thumbnail of state.pdfJsDoc
handleRotatePage(pageIndex) ==
  /\ CanStart
  /\ pageIndex \in 0..(Len(pdfJsDoc) - 1)
  /\ IF ValidIndex(docs[pdfDoc], pageIndex)
     THEN /\ docs' = [docs EXCEPT ![pdfDoc] = rotatePage(@, pageIndex, 90)]
          /\ Started([Req("rotate", "save") EXCEPT !.muts = Mutated(docs', pdfDoc)])
          /\ UNCHANGED pdfDoc
     ELSE EndedAtOnce("rotate", "error", "rotatePage")
  /\ UNCHANGED <<pdfJsDoc, redactionBoxes, currentRedactPage, listeners>>
  /\ UNCHANGED notApp

\* Faulty variant of the test below: a document of one page passes
IsLastPage_Never(pageCount) == pageCount < 1

\* handleDeletePage: if (pageCount <= 1) 'Cannot delete the last page'
IsLastPage(pageCount) == pageCount <= 1

\* handleDeletePage(pageIndex), up to state.pdfDoc.save()
handleDeletePage(pageIndex) ==
  /\ CanStart
  /\ pageIndex \in 0..(Len(pdfJsDoc) - 1)
  /\ IF IsLastPage(getPageCount(docs[pdfDoc]))
     THEN EndedAtOnce("delete", "rejected", "lastPage")
     ELSE /\ docs' = [docs EXCEPT ![pdfDoc] = deletePages(@, <<pageIndex>>)]
          /\ Started([Req("delete", "save") EXCEPT !.muts = Mutated(docs', pdfDoc)])
          /\ UNCHANGED pdfDoc
  /\ UNCHANGED <<pdfJsDoc, redactionBoxes, currentRedactPage, listeners>>
  /\ UNCHANGED notApp

\* ------------------------------------------------------------------------
\* Popup script: the common tail  save() -> getDocument() -> state.pdfJsDoc
\* ------------------------------------------------------------------------
\* pdfDoc.save() resolves with the bytes of the document object
SaveDone(k) ==
  /\ k \in 1..Len(reqs)
  /\ reqs[k].pc = "save"
  /\ UNCHANGED pdfDoc
  /\ Continued(k, [reqs[k] EXCEPT !.pc = "open", !.doc = pdfDoc,
                                  !.bytes = save(docs[reqs[k].doc])], docs)
  /\ UNCHANGED <<pdfJsDoc, redactionBoxes, currentRedactPage, listeners>>
  /\ UNCHANGED notApp

\* pdfDoc.save() rejects: the .catch handler alerts
SaveFail(k) ==
  /\ k \in 1..Len(reqs)
  /\ reqs[k].pc = "save"
  /\ Ended(k, "error", "save")
  /\ UNCHANGED <<pdfJsDoc, redactionBoxes, currentRedactPage, listeners>>
  /\ UNCHANGED notApp

\* getDocument(bytes).promise resolves: state.pdfJsDoc = pdfJsDoc; after a
\* redaction the boxes are dropped and the redaction page is shown again,
\* which rejects when state.currentRedactPage is no page of the new preview
OpenDone(k) ==
  /\ k \in 1..Len(reqs)
  /\ reqs[k].pc = "open"
  /\ pdfJsDoc' = getDocument(reqs[k].bytes)
  /\ redactionBoxes' = IF reqs[k].op = "redact" THEN NoBoxes ELSE redactionBoxes
  /\ listeners' = IF reqs[k].op = "redact"
                  THEN renderRedactionPage(NoListeners, currentRedactPage,
                                           pdfJsDoc')
                  ELSE listeners
  /\ UNCHANGED currentRedactPage
  /\ IF reqs[k].op = "redact" /\ currentRedactPage >= Len(pdfJsDoc')
     THEN Ended(k, "error", "renderRedactionPage")
     ELSE Ended(k, "ok", "done")
  /\ UNCHANGED notApp

\* getDocument(bytes).promise rejects
OpenFail(k) ==
  /\ k \in 1..Len(reqs)
  /\ reqs[k].pc = "open"
  /\ Ended(k, "error", "open")
  /\ UNCHANGED <<pdfJsDoc, redactionBoxes, currentRedactPage, listeners>>
  /\ UNCHANGED notApp

\* ------------------------------------------------------------------------
\* Popup script: reorder and merge (a new document object is built)
\* ------------------------------------------------------------------------
\* Index used for an undefined array entry
Undefined == 0 - 1

\* newOrder = [0..pageCount-1]; removed = newOrder.splice(fromIndex, 1)[0];
\* newOrder.splice(toIndex, 0, removed)
MoveOrder(pageCount, fromIndex, toIndex) ==
  LET ident == [i \in 1..pageCount |-> i - 1]
      removed == IF fromIndex < pageCount THEN fromIndex ELSE Undefined
      rest == IF fromIndex < pageCount THEN RemoveAt(ident, fromIndex + 1) ELSE ident
  IN InsertAt(rest, Min(toIndex, Len(rest)) + 1, removed)

\* handlePageReorder(fromIndex, toIndex), up to the call of reorderPages;
\* the drop handler calls it only when fromIndex !== toIndex
handlePageReorder(fromIndex, toIndex) ==
  /\ CanStart
  /\ fromIndex \in 0..(Len(pdfJsDoc) - 1)
  /\ toIndex \in 0..(Len(pdfJsDoc) - 1)
  /\ fromIndex # toIndex
  /\ Started([Req("reorder", "reorder") EXCEPT
                !.order = MoveOrder(getPageCount(docs[pdfDoc]), fromIndex, toIndex)])
  /\ UNCHANGED <<docs, pdfDoc, pdfJsDoc, redactionBoxes, currentRedactPage,
                 listeners>>
  /\ UNCHANGED notApp

\* reorderPages resolves: state.pdfDoc = newPdfDoc; state.pdfDoc.save()
ReorderDone(k) ==
  /\ k \in 1..Len(reqs)
  /\ reqs[k].pc = "reorder"
  /\ ~CopyFails(docs[reqs[k].doc], reqs[k].order)
  /\ pdfDoc' = FreeSlot
  /\ Continued(k, [reqs[k] EXCEPT !.pc = "save", !.doc = FreeSlot],
               [docs EXCEPT ![FreeSlot] = reorderPages(docs[reqs[k].doc], reqs[k].order)])
  /\ UNCHANGED <<pdfJsDoc, redactionBoxes, currentRedactPage, listeners>>
  /\ UNCHANGED notApp

\* reorderPages rejects: a copied index is no page of the source document
ReorderFail(k) ==
  /\ k \in 1..Len(reqs)
  /\ reqs[k].pc = "reorder"
  /\ CopyFails(docs[reqs[k].doc], reqs[k].order)
  /\ Ended(k, "error", "reorderPages")
  /\ UNCHANGED <<pdfJsDoc, redactionBoxes, currentRedactPage, listeners>>
  /\ UNCHANGED notApp

\* handleMergeFiles: the chosen file starts loading
handleMergeFiles(file) ==
  /\ CanStart
  /\ file \in MergeFiles
  /\ Len(docs[pdfDoc]) + Cardinality({j \in 1..Len(reqs) : reqs[j].op = "merge"})
       < MaxPages
  /\ Started([Req("merge", "load") EXCEPT !.arg = file])
  /\ UNCHANGED <<docs, pdfDoc, pdfJsDoc, redactionBoxes, currentRedactPage,
                 listeners>>
  /\ UNCHANGED notApp

\* loadPDFFile and loadPDFDocument resolved for every file:
\* mergePDFs([state.pdfDoc].concat(additionalDocs)) is called
LoadDone(k) ==
  /\ k \in 1..Len(reqs)
  /\ reqs[k].pc = "load"
  /\ reqs[k].arg = "pdf"
  /\ UNCHANGED pdfDoc
  /\ Continued(k, [reqs[k] EXCEPT !.pc = "merge", !.doc = pdfDoc], docs)
  /\ UNCHANGED <<pdfJsDoc, redactionBoxes, currentRedactPage, listeners>>
  /\ UNCHANGED notApp

\* a file is not a PDF or does not parse
LoadFail(k) ==
  /\ k \in 1..Len(reqs)
  /\ reqs[k].pc = "load"
  /\ reqs[k].arg = "bad"
  /\ Ended(k, "error", "load")
  /\ UNCHANGED <<pdfJsDoc, redactionBoxes, currentRedactPage, listeners>>
  /\ UNCHANGED notApp

\* mergePDFs resolves: state.pdfDoc = mergedDoc; state.pdfDoc.save()
MergeDone(k) ==
  /\ k \in 1..Len(reqs)
  /\ reqs[k].pc = "merge"
  /\ pdfDoc' = FreeSlot
  /\ Continued(k, [reqs[k] EXCEPT !.pc = "save", !.doc = FreeSlot],
               [docs EXCEPT ![FreeSlot] = mergePDFs(<<docs[reqs[k].doc], MergeDoc>>)])
  /\ UNCHANGED <<pdfJsDoc, redactionBoxes, currentRedactPage, listeners>>
  /\ UNCHANGED notApp

\* ------------------------------------------------------------------------
\* Popup script: drawing boxes and applying the redaction
\* ------------------------------------------------------------------------
MaxBoxes == 1

\* Listeners added for one boxes array
MaxListeners == 2

\* Which source page a page of a document is: every source page has its own
\* declared size, which rotation, copying and redaction keep
PageId(page) == CHOOSE id \in 1..4 : SizeOf(id) = [w |-> page.w, h |-> page.h]

\* Which source page a PDF.js page of the preview shows
ShownPageId(pdfJsPage) ==
  PageId(IF pdfJsPage.rot \in {90, 270}
         THEN [w |-> pdfJsPage.vh, h |-> pdfJsPage.vw]
         ELSE [w |-> pdfJsPage.vw, h |-> pdfJsPage.vh])

\* mouseup on the overlay of the page shown by renderRedactionPage, set up
\* for that page: every listener pushes the box, in overlay canvas pixels,
\* onto its own array and stores that array as
\* state.redactionBoxes[state.currentRedactPage]; the listener added last
\* stores the array of the page shown.  The user drags over the left half of
\* the page, between two requests.
\* drawnOn is no field of the program's box: it records, for the properties
\* only, the page that was on display when the box was drawn
Pushed(boxes, box, times) == boxes \o [k \in 1..times |-> box]

DrawBox ==
  /\ reqs = <<>>
  /\ currentRedactPage < Len(pdfJsDoc)
  /\ listeners.last = currentRedactPage
  /\ \A p \in PageIndices : Len(redactionBoxes[p]) + listeners.n[p] <= MaxBoxes
  /\ LET shown == pdfJsDoc[currentRedactPage + 1]
         box == LeftHalf(renderPageForRedaction(shown))
     IN /\ BoxKept(box)
        /\ redactionBoxes' =
             [p \in PageIndices |->
                Pushed(redactionBoxes[p],
                       [x |-> box.x, y |-> box.y, width |-> box.width,
                        height |-> box.height, drawnOn |-> ShownPageId(shown)],
                       listeners.n[p])]
  /\ UNCHANGED <<docs, pdfDoc, pdfJsDoc, currentRedactPage, listeners, reqs,
                 nreq, last>>
  /\ UNCHANGED notApp

\* The contextmenu listener's loop, run by times listeners on one array: the
\* last box that holds the point is spliced out
Holds(box, pos) ==
  /\ pos.x >= box.x /\ pos.x <= box.x + box.width
  /\ pos.y >= box.y /\ pos.y <= box.y + box.height

RECURSIVE Spliced(_, _, _)
Spliced(boxes, pos, times) ==
  LET hits == {k \in 1..Len(boxes) : Holds(boxes[k], pos)}
  IN IF times = 0 \/ hits = {} THEN boxes
     ELSE Spliced(RemoveAt(boxes, CHOOSE k \in hits : \A h \in hits : h <= k),
                  pos, times - 1)

\* contextmenu on a box of the page shown, near its top left corner
RemoveBox ==
  /\ reqs = <<>>
  /\ currentRedactPage < Len(pdfJsDoc)
  /\ listeners.last = currentRedactPage
  /\ LET pos == [x |-> 1, y |-> 1]
     IN /\ \E k \in 1..Len(redactionBoxes[currentRedactPage]) :
             Holds(redactionBoxes[currentRedactPage][k], pos)
        /\ redactionBoxes' =
             [p \in PageIndices |->
                Spliced(redactionBoxes[p], pos, listeners.n[p])]
  /\ UNCHANGED <<docs, pdfDoc, pdfJsDoc, currentRedactPage, listeners, reqs,
                 nreq, last>>
  /\ UNCHANGED notApp

navigateRedactPage(delta) ==
  /\ reqs = <<>>
  /\ LET newPage == currentRedactPage + delta
     IN /\ newPage >= 0
        /\ newPage < getPageCount(docs[pdfDoc])
        /\ newPage < Len(pdfJsDoc) => listeners.n[newPage] < MaxListeners
        /\ currentRedactPage' = newPage
        /\ listeners' = renderRedactionPage(listeners, newPage, pdfJsDoc)
  /\ UNCHANGED <<docs, pdfDoc, pdfJsDoc, redactionBoxes, reqs, nreq, last>>
  /\ UNCHANGED notApp

clearRedactionBoxes ==
  /\ reqs = <<>>
  /\ redactionBoxes' = [redactionBoxes EXCEPT ![currentRedactPage] = <<>>]
  /\ listeners' = renderRedactionPage(NewArray(listeners, currentRedactPage),
                                      currentRedactPage, pdfJsDoc)
  /\ UNCHANGED <<docs, pdfDoc, pdfJsDoc, currentRedactPage, reqs, nreq, last>>
  /\ UNCHANGED notApp

\* Object.keys(redactionsByPage).map(Number).sort(), walked from the end,
\* entries without boxes skipped
RECURSIVE BoxedPagesDesc(_, _)
BoxedPagesDesc(redactionsByPage, i) ==
  IF i < 0 THEN <<>>
  ELSE (IF redactionsByPage[i] # <<>> THEN <<i>> ELSE <<>>)
         \o BoxedPagesDesc(redactionsByPage, i - 1)

\* Faulty variant of the order below: the loop walks the sorted indices from
\* the start
BatchOrder_Ascending(redactionsByPage) ==
  SortAsc(BoxedPagesDesc(redactionsByPage, MaxPages - 1))

\* applyRedactions: for (i = pageIndices.length - 1; i >= 0; i--), the page
\* indices in the order in which the loop replaces them
BatchOrder(redactionsByPage) == BoxedPagesDesc(redactionsByPage, MaxPages - 1)

\* applyRedaction, up to copyPDFDocument(state.pdfDoc)
applyRedaction ==
  /\ CanStart
  /\ \E i \in PageIndices : redactionBoxes[i] # <<>>
  /\ Started(Req("redact", "copy"))
  /\ UNCHANGED <<docs, pdfDoc, pdfJsDoc, redactionBoxes, currentRedactPage,
                 listeners>>
  /\ UNCHANGED notApp

\* copyPDFDocument resolves: state.pdfDoc = pdfDocCopy; applyRedactions is
\* called with state.pdfDoc, state.pdfJsDoc and state.redactionBoxes
CopyDone(k) ==
  /\ k \in 1..Len(reqs)
  /\ reqs[k].pc = "copy"
  /\ pdfDoc' = FreeSlot
  /\ LET left == BatchOrder(redactionBoxes)
     IN Continued(k, [reqs[k] EXCEPT !.pc = IF left = <<>> THEN "save" ELSE "page",
                                     !.doc = FreeSlot,
                                     !.jsdoc = pdfJsDoc,
                                     !.boxes = redactionBoxes,
                                     !.left = left],
                  [docs EXCEPT ![FreeSlot] = copyPDFDocument(docs[reqs[k].doc])])
  /\ UNCHANGED <<pdfJsDoc, redactionBoxes, currentRedactPage, listeners>>
  /\ UNCHANGED notApp

\* copyPDFDocument rejects
CopyFail(k) ==
  /\ k \in 1..Len(reqs)
  /\ reqs[k].pc = "copy"
  /\ Ended(k, "error", "copy")
  /\ UNCHANGED <<pdfJsDoc, redactionBoxes, currentRedactPage, listeners>>
  /\ UNCHANGED notApp

\* The next page of the batch can be fetched from the preview and replaced
PageAvailable(r) ==
  /\ Head(r.left) < Len(r.jsdoc)
  /\ ValidIndex(docs[r.doc], Head(r.left))

\* One iteration of the loop of applyRedactions: getPage, render, fillRect,
\* toBlob, replacePageWithImage; after the last one state.pdfDoc.save()
PageDone(k) ==
  /\ k \in 1..Len(reqs)
  /\ reqs[k].pc = "page"
  /\ PageAvailable(reqs[k])
  /\ UNCHANGED pdfDoc
  /\ LET r == reqs[k]
         pageIndex == Head(r.left)
     IN Continued(k, [r EXCEPT !.left = Tail(r.left),
                               !.done = r.done \cup {pageIndex},
                               !.pc = IF Tail(r.left) = <<>> THEN "save" ELSE "page",
                               !.doc = IF Tail(r.left) = <<>> THEN pdfDoc ELSE r.doc],
                  [docs EXCEPT ![r.doc] =
                     applyRedactionToPage(@, r.jsdoc[pageIndex + 1], pageIndex,
                                          r.boxes[pageIndex])])
  /\ UNCHANGED <<pdfJsDoc, redactionBoxes, currentRedactPage, listeners>>
  /\ UNCHANGED notApp

\* The raster engine (getPage, render, toBlob or embedPng) fails on the page:
\* applyRedactions rejects and the .catch handler of applyRedaction alerts
PageFail(k) ==
  /\ k \in 1..Len(reqs)
  /\ reqs[k].pc = "page"
  /\ Ended(k, "error", "raster")
  /\ UNCHANGED <<pdfJsDoc, redactionBoxes, currentRedactPage, listeners>>
  /\ UNCHANGED notApp

\* ------------------------------------------------------------------------
\* Popup script: placing a signature
\* ------------------------------------------------------------------------
StampCells == {{<<0, 1>>}}

\* handlePlaceSignature, up to state.pdfJsDoc.getPage(currentSignPage + 1)
handlePlaceSignature(pageIndex, cells) ==
  /\ CanStart
  /\ pageIndex \in 0..(Len(pdfJsDoc) - 1)
  /\ cells \in StampCells
  /\ Started([Req("stamp", "getPage") EXCEPT !.page = pageIndex, !.cells = cells])
  /\ UNCHANGED <<docs, pdfDoc, pdfJsDoc, redactionBoxes, currentRedactPage,
                 listeners>>
  /\ UNCHANGED notApp

\* getPage resolved: insertSignatureIntoPDF(state.pdfDoc, ...) runs up to
\* the await of embedPng / embedJpg
StampGetPage(k) ==
  /\ k \in 1..Len(reqs)
  /\ reqs[k].pc = "getPage"
  /\ IF ValidIndex(docs[pdfDoc], reqs[k].page)
     THEN /\ UNCHANGED pdfDoc
          /\ Continued(k, [reqs[k] EXCEPT !.pc = "embed", !.doc = pdfDoc], docs)
     ELSE Ended(k, "error", "insertImageOnPage")
  /\ UNCHANGED <<pdfJsDoc, redactionBoxes, currentRedactPage, listeners>>
  /\ UNCHANGED notApp

\* the image is embedded and drawn on the page object, which is no longer
\* part of the document when the page was removed meanwhile;
\* then state.pdfDoc.save()
EmbedDone(k) ==
  /\ k \in 1..Len(reqs)
  /\ reqs[k].pc = "embed"
  /\ UNCHANGED pdfDoc
  /\ Continued(k, [reqs[k] EXCEPT !.pc = "save", !.doc = pdfDoc],
               [docs EXCEPT ![reqs[k].doc] =
                  IF ValidIndex(@, reqs[k].page)
                  THEN insertImageOnPage(@, reqs[k].page, nreq, reqs[k].cells)
                  ELSE @])
  /\ UNCHANGED <<pdfJsDoc, redactionBoxes, currentRedactPage, listeners>>
  /\ UNCHANGED notApp

\* embedPng / embedJpg rejects
EmbedFail(k) ==
  /\ k \in 1..Len(reqs)
  /\ reqs[k].pc = "embed"
  /\ Ended(k, "error", "embed")
  /\ UNCHANGED <<pdfJsDoc, redactionBoxes, currentRedactPage, listeners>>
  /\ UNCHANGED notApp

\* ------------------------------------------------------------------------
\* Values of the variables a specification does not use
\* ------------------------------------------------------------------------
ViewerIdle ==
  /\ viewerDoc = 0 /\ totalPages = 0 /\ scale = 1
  /\ canvas = <<>> /\ renderedPages = {} /\ renderQueue = <<>>
  /\ isRendering = FALSE /\ jobs = {} /\ timers = 0 /\ resizes = {}
  /\ pendingObs = {} /\ visible = {} /\ nEvents = 0

BoxIdle ==
  /\ shownPage = <<>> /\ drawn = <<>> /\ painted = <<>> /\ zoom = 1
  /\ viewerBoxes = <<>> /\ drawnAt = <<>> /\ boxesForPDF = <<>>

TwinIdle ==
  /\ docA = <<>> /\ docB = <<>> /\ twinPage = 0 /\ twinBoxes = <<>>
  /\ twinDiff = {} /\ twinPc = "idle"

AppIdle ==
  /\ docs = <<>> /\ pdfDoc = 0 /\ pdfJsDoc = <<>> /\ redactionBoxes = <<>>
  /\ currentRedactPage = 0 /\ listeners = <<>> /\ reqs = <<>> /\ nreq = 0
  /\ last = <<>>

OpsIdle ==
  /\ opDocs = <<>> /\ opBefore = <<>> /\ opArg = <<>> /\ opOut = <<>>
  /\ opPc = "idle"

LoadIdle ==
  /\ pdfData = <<>> /\ fileName = <<>> /\ loadedDoc = <<>> /\ loadedJsDoc = <<>>
  /\ uploadShown = FALSE /\ loads = <<>> /\ nLoads = 0 /\ loadLast = <<>>

SigIdle == sigPage = <<>> /\ sigZoom = 1 /\ sigRect = <<>> /\ sigOut = <<>>

StoreIdle == store = <<>> /\ sigCalls = <<>> /\ nCalls = 0 /\ callLast = <<>>

\* ------------------------------------------------------------------------
\* Specification of the popup script
\* ------------------------------------------------------------------------
Init ==
  AppInit /\ ViewerIdle /\ BoxIdle /\ TwinIdle /\ OpsIdle /\ LoadIdle /\ SigIdle /\ StoreIdle

Next ==
  \/ \E i \in PageIndices : handleRotatePage(i)
  \/ \E i \in PageIndices : handleDeletePage(i)
  \/ \E i, j \in PageIndices : handlePageReorder(i, j)
  \/ \E f \in MergeFiles : handleMergeFiles(f)
  \/ applyRedaction
  \/ \E i \in PageIndices, cells \in StampCells : handlePlaceSignature(i, cells)
  \/ DrawBox
  \/ RemoveBox
  \/ \E delta \in {0 - 1, 1} : navigateRedactPage(delta)
  \/ clearRedactionBoxes
  \/ \E k \in 1..MaxInFlight : SaveDone(k)
  \/ \E k \in 1..MaxInFlight : SaveFail(k)
  \/ \E k \in 1..MaxInFlight : OpenDone(k)
  \/ \E k \in 1..MaxInFlight : OpenFail(k)
  \/ \E k \in 1..MaxInFlight : ReorderDone(k)
  \/ \E k \in 1..MaxInFlight : ReorderFail(k)
  \/ \E k \in 1..MaxInFlight : LoadDone(k)
  \/ \E k \in 1..MaxInFlight : LoadFail(k)
  \/ \E k \in 1..MaxInFlight : MergeDone(k)
  \/ \E k \in 1..MaxInFlight : CopyDone(k)
  \/ \E k \in 1..MaxInFlight : CopyFail(k)
  \/ \E k \in 1..MaxInFlight : PageDone(k)
  \/ \E k \in 1..MaxInFlight : PageFail(k)
  \/ \E k \in 1..MaxInFlight : StampGetPage(k)
  \/ \E k \in 1..MaxInFlight : EmbedDone(k)
  \/ \E k \in 1..MaxInFlight : EmbedFail(k)

Spec == Init /\ [][Next]_vars

\* ------------------------------------------------------------------------
\* Properties of the popup script
\* ------------------------------------------------------------------------
\* C1: whenever no request is in flight, the preview document state.pdfJsDoc
\* is a rendering of the current document state.pdfDoc: same page count,
\* page order, rotations and content
C1_PreviewMatchesDocument ==
  reqs = <<>> => pdfJsDoc = getDocument(save(docs[pdfDoc]))

\* C3: a rotate, delete, reorder, merge or stamp request that ends in an error
\* (and ran alone) leaves the current document identical to the document
\* before the request
C3_ErrorLeavesDocument ==
  (last.status = "error" /\ last.op \in MutationOps /\ ~last.overlap)
    => last.unchanged

\* C4: a mutation request does not begin before the request issued before it
\* has committed its document and its preview: no two requests are in flight
C4_OneRequestAtATime == Len(reqs) <= 1

\* C8: a raster failure in a batch redaction aborts the failing page only:
\* no other page of the batch is left unprocessed
C8_RasterFailurePageScoped ==
  (last.op = "redact" /\ last.step = "raster") => last.skipped = {}

\* C11: when a page of the document is replaced by its redacted image, the
\* boxes painted on it were drawn on that same page, whatever deletions,
\* reorderings or merges happened between drawing and applying
C11_BoxesFollowTheirPage ==
  [][\A k \in 1..Len(reqs) :
       (/\ reqs[k].pc = "page"
        /\ Len(reqs') = Len(reqs)
        /\ reqs'[k].done # reqs[k].done)
       => LET pageIndex == Head(reqs[k].left)
              boxes == reqs[k].boxes[pageIndex]
          IN \A j \in 1..Len(boxes) :
               boxes[j].drawnOn = PageId(docs[reqs[k].doc][pageIndex + 1])]_vars

\* C12: when a redaction that ran alone has processed its last page, the
\* document has as many pages as before; every page that had a box is, at the
\* same position, a page of the same declared size whose only content is one
\* image; every page without a box is as it was
C12_RedactionReplacesBoxedPages ==
  [][\A k \in 1..Len(reqs) :
       (/\ reqs[k].op = "redact"
        /\ reqs[k].pc = "page"
        /\ Len(reqs') = Len(reqs)
        /\ reqs'[k].pc = "save"
        /\ ~reqs'[k].overlap)
       => LET before == reqs'[k].before
              after == docs'[reqs'[k].doc]
          IN /\ Len(after) = Len(before)
             /\ \A i \in 1..Len(before) :
                  IF reqs'[k].boxes[i - 1] # <<>>
                  THEN /\ after[i].w = before[i].w
                       /\ after[i].h = before[i].h
                       /\ Len(after[i].objs) = 1
                       /\ after[i].objs[1].kind = "img"
                  ELSE after[i] = before[i]]_vars

\* a redaction that ran alone has replaced the first page of a two-page
\* document and left the second page, which had no box, alone
C12_Witness ==
  \E k \in 1..Len(reqs) :
    /\ reqs[k].op = "redact"
    /\ reqs[k].pc = "save"
    /\ ~reqs[k].overlap
    /\ reqs[k].done = {0}
    /\ Len(docs[reqs[k].doc]) = 2

C27_BatchDescending ==
  \A k \in 1..Len(reqs) :
    (reqs[k].op = "redact" /\ reqs[k].pc = "page" /\ ~reqs[k].overlap) =>
      LET r == reqs[k]
      IN /\ \A a, b \in 1..Len(r.left) : a < b => r.left[a] > r.left[b]
         /\ \A a \in 1..Len(r.left) :
              /\ \A d \in r.done : d > r.left[a]
              /\ r.left[a] < Len(r.before) =>
                   /\ r.left[a] < Len(docs[r.doc])
                   /\ docs[r.doc][r.left[a] + 1] = r.before[r.left[a] + 1]

\* the batch has replaced page 1 and page 0 is still to be processed
C27_Witness ==
  /\ Len(reqs) = 1
  /\ reqs[1].op = "redact" /\ reqs[1].pc = "page" /\ ~reqs[1].overlap
  /\ reqs[1].done = {1}
  /\ reqs[1].left = <<0>>
  /\ docs[reqs[1].doc][2] # reqs[1].before[2]

\* A page whose only content is one image that covers it
Rasterized(page) == Len(page.objs) = 1 /\ IsImage(page.objs[1])

\* C28: a redaction batch that runs alone and comes to a page that was
\* already an image page when the batch began can process it, and once the
\* batch has processed such a page the page is again one image and nothing
\* else
C28_RedactTwice ==
  \A k \in 1..Len(reqs) :
    LET r == reqs[k]
    IN (r.op = "redact" /\ ~r.overlap) =>
         /\ (/\ r.pc = "page"
             /\ Head(r.left) < Len(r.before)
             /\ Rasterized(r.before[Head(r.left) + 1])) => PageAvailable(r)
         /\ r.pc \in {"save", "open"} =>
              \A p \in r.done :
                (p < Len(r.before) /\ Rasterized(r.before[p + 1])) =>
                  (p < Len(docs[r.doc]) /\ Rasterized(docs[r.doc][p + 1]))

\* page 0 was redacted by an earlier request and has been redacted again
C28_Witness ==
  /\ Len(reqs) = 1
  /\ reqs[1].op = "redact" /\ reqs[1].pc = "open" /\ ~reqs[1].overlap
  /\ reqs[1].done = {0}
  /\ Rasterized(reqs[1].before[1])
  /\ Rasterized(docs[reqs[1].doc][1])
  /\ docs[reqs[1].doc][1].objs[1].px[<<0, 0>>] = Black

\* C26: the revision of the current document counts the changes of its
\* pages: a request that ran alone and ended well changed them exactly once,
\* and one that ended in an error or was rejected did not change them
C26_RevisionStepsByOne ==
  ~last.overlap =>
    /\ last.status = "ok" => last.muts = 1
    /\ last.status \in {"error", "rejected"} => last.muts = 0

\* ------------------------------------------------------------------------
\* Viewer: the lazy render scheduler (queueRender, processRenderQueue,
\* renderPage, applyScale, refresh of the viewer built on `state`)
\* ------------------------------------------------------------------------
MaxEvents == 2

\* Zoom values offered to setScale / setZoom
Scales == {1, 2}

PagesOf(n) == 0..(n - 1)

\* createPagePlaceholders: every new page canvas is empty
NoCanvas == [p \in PageIndices |-> Blank]

\* What page.render leaves on a canvas: the page of a revision at a scale
Img(doc, s) == <<"img", doc, s>>

\* The fields the scheduler functions read and write
Sched == [renderQueue |-> renderQueue, isRendering |-> isRendering, jobs |-> jobs]

\* What the scheduler functions read besides: state.pdfJsDoc (and the page
\* wrappers made for it), state.totalPages, state.renderedPages, state.scale
Cx == [doc |-> viewerDoc, pages |-> totalPages, rendered |-> renderedPages,
       zoom |-> scale]

InQueue(q, pageIndex) == \E k \in 1..Len(q) : q[k] = pageIndex

\* renderPage(pageIndex) past its two early returns: the wrapper and its
\* canvas are captured and state.pdfJsDoc.getPage is called
RenderJob(pageIndex, cx) ==
  [page |-> pageIndex, doc |-> cx.doc, zoom |-> cx.zoom, scale |-> 0,
   pc |-> "getPage"]

\* Faulty variant of the guard below: the single-flight flag is not read
QueueBlocked_NoFlag(st) == st.renderQueue = <<>>

\* if (state.isRendering || state.renderQueue.length === 0) return;
QueueBlocked(st) == st.isRendering \/ st.renderQueue = <<>>

\* processRenderQueue; a renderPage that resolves at once (page already in
\* renderedPages, or no wrapper) is followed in the same turn by
\* isRendering = false and processRenderQueue()
RECURSIVE processRenderQueue(_, _)
processRenderQueue(st, cx) ==
  IF QueueBlocked(st) THEN st
  ELSE LET pageIndex == Head(st.renderQueue)
           rest == [st EXCEPT !.renderQueue = Tail(@)]
       IN IF pageIndex \in cx.rendered \/ pageIndex >= cx.pages
          THEN processRenderQueue(rest, cx)
          ELSE [rest EXCEPT !.isRendering = TRUE,
                            !.jobs = @ \cup {RenderJob(pageIndex, cx)}]

\* Faulty variant of the function below: the page is put at the front of the
\* queue
queueRender_Front(st, pageIndex, cx) ==
  IF pageIndex \in cx.rendered \/ InQueue(st.renderQueue, pageIndex) THEN st
  ELSE processRenderQueue([st EXCEPT !.renderQueue = <<pageIndex>> \o @], cx)

queueRender(st, pageIndex, cx) ==
  IF pageIndex \in cx.rendered \/ InQueue(st.renderQueue, pageIndex) THEN st
  ELSE processRenderQueue([st EXCEPT !.renderQueue = Append(@, pageIndex)], cx)

RECURSIVE RenderVisibleFrom(_, _, _, _)
RenderVisibleFrom(st, index, isVisible, cx) ==
  IF index >= cx.pages THEN st
  ELSE RenderVisibleFrom(IF index \in isVisible THEN queueRender(st, index, cx) ELSE st,
                         index + 1, isVisible, cx)

\* state.pageWrappers.forEach(... if (isVisible) queueRender(index))
renderVisiblePages(st, isVisible, cx) == RenderVisibleFrom(st, 0, isVisible, cx)

Commit(st) ==
  /\ renderQueue' = st.renderQueue
  /\ isRendering' = st.isRendering
  /\ jobs' = st.jobs

\* The viewer after init(pdfJsDoc, options)
ViewerInit ==
  /\ viewerDoc = 1
  /\ totalPages \in 1..MaxPages
  /\ scale = 1
  /\ canvas = NoCanvas
  /\ renderedPages = {}
  /\ visible \in (SUBSET PageIndices) \ {{}}
  /\ LET st == renderVisiblePages(
                 [renderQueue |-> <<>>, isRendering |-> FALSE, jobs |-> {}], visible,
                 [doc |-> 1, pages |-> totalPages, rendered |-> {}, zoom |-> 1])
     IN /\ renderQueue = st.renderQueue
        /\ isRendering = st.isRendering
        /\ jobs = st.jobs
  /\ timers = 0
  /\ resizes = {}
  /\ pendingObs = visible \cap PagesOf(totalPages)
  /\ nEvents = 0

\* refresh(pdfJsDoc) after a mutation: the next revision, with numPages pages
refresh(numPages) ==
  /\ nEvents < MaxEvents
  /\ numPages \in 1..MaxPages
  /\ viewerDoc' = viewerDoc + 1
  /\ totalPages' = numPages
  /\ renderedPages' = {}
  /\ canvas' = NoCanvas
  /\ resizes' = {}
  /\ pendingObs' = visible \cap PagesOf(numPages)
  /\ Commit(renderVisiblePages([Sched EXCEPT !.renderQueue = <<>>], visible,
                               [doc |-> viewerDoc + 1, pages |-> numPages,
                                rendered |-> {}, zoom |-> scale]))
  /\ nEvents' = nEvents + 1
  /\ UNCHANGED <<scale, timers, visible>>
  /\ UNCHANGED notViewer

\* setScale(newScale) with a number: applyScale(newScale)
applyScale(newScale) ==
  /\ nEvents < MaxEvents
  /\ newScale \in Scales
  /\ scale' = newScale
  /\ renderedPages' = {}
  /\ Commit([Sched EXCEPT !.renderQueue = <<>>])
  /\ resizes' = PagesOf(totalPages)
  /\ timers' = timers + 1
  /\ nEvents' = nEvents + 1
  /\ UNCHANGED <<viewerDoc, totalPages, canvas, pendingObs, visible>>
  /\ UNCHANGED notViewer

\* The getPage callbacks applyScale left for the wrappers (they resolve in
\* a row): every canvas is resized and cleared
ResizeDone ==
  /\ resizes # {}
  /\ resizes' = {}
  /\ canvas' = [p \in PageIndices |-> IF p \in resizes THEN Blank ELSE canvas[p]]
  /\ UNCHANGED <<viewerDoc, totalPages, scale, renderedPages, renderQueue,
                 isRendering, jobs, timers, pendingObs, visible, nEvents>>
  /\ UNCHANGED notViewer

\* The timeout set by applyScale: renderVisiblePages()
TimerFires ==
  /\ timers > 0
  /\ timers' = timers - 1
  /\ Commit(renderVisiblePages(Sched, visible, Cx))
  /\ UNCHANGED <<viewerDoc, totalPages, scale, canvas, renderedPages, resizes,
                 pendingObs, visible, nEvents>>
  /\ UNCHANGED notViewer

\* The user scrolls: other pages come into the render-worthy range
Scroll(v) ==
  /\ nEvents < MaxEvents
  /\ v \in (SUBSET PageIndices) \ {{}}
  /\ v # visible
  /\ visible' = v
  /\ pendingObs' = pendingObs \cup ((v \ visible) \cap PagesOf(totalPages))
  /\ nEvents' = nEvents + 1
  /\ UNCHANGED <<viewerDoc, totalPages, scale, canvas, renderedPages, renderQueue,
                 isRendering, jobs, timers, resizes>>
  /\ UNCHANGED notViewer

\* The render observer delivers its entries in one callback:
\* entries.forEach(... if (entry.isIntersecting) queueRender(pageIndex))
ObserverFires ==
  /\ pendingObs # {}
  /\ pendingObs' = {}
  /\ Commit(RenderVisibleFrom(Sched, 0, pendingObs \cap visible, Cx))
  /\ UNCHANGED <<viewerDoc, totalPages, scale, canvas, renderedPages, timers,
                 resizes, visible, nEvents>>
  /\ UNCHANGED notViewer

\* renderPage: getPage resolved; the viewport is taken at the scale of this
\* moment and the captured canvas is resized, which empties it
GetPageDone(j) ==
  /\ j \in jobs
  /\ j.pc = "getPage"
  /\ canvas' = IF j.doc = viewerDoc THEN [canvas EXCEPT ![j.page] = Blank] ELSE canvas
  /\ jobs' = (jobs \ {j}) \cup {[j EXCEPT !.pc = "render", !.scale = scale]}
  /\ UNCHANGED <<viewerDoc, totalPages, scale, renderedPages, renderQueue,
                 isRendering, timers, resizes, pendingObs, visible, nEvents>>
  /\ UNCHANGED notViewer

\* renderPage: page.render resolved on the captured canvas;
\* state.renderedPages.add(pageIndex); then, in processRenderQueue,
\* isRendering = false and processRenderQueue()
RenderDone(j) ==
  /\ j \in jobs
  /\ j.pc = "render"
  /\ canvas' = IF j.doc = viewerDoc
               THEN [canvas EXCEPT ![j.page] = Img(j.doc, j.scale)]
               ELSE canvas
  /\ renderedPages' = renderedPages \cup {j.page}
  /\ Commit(processRenderQueue(
              [Sched EXCEPT !.jobs = @ \ {j}, !.isRendering = FALSE],
              [Cx EXCEPT !.rendered = renderedPages \cup {j.page}]))
  /\ UNCHANGED <<viewerDoc, totalPages, scale, timers, resizes, pendingObs,
                 visible, nEvents>>
  /\ UNCHANGED notViewer

\* getPage or page.render rejects: the .catch of processRenderQueue
RenderFail(j) ==
  /\ j \in jobs
  /\ Commit(processRenderQueue(
              [Sched EXCEPT !.jobs = @ \ {j}, !.isRendering = FALSE], Cx))
  /\ UNCHANGED <<viewerDoc, totalPages, scale, canvas, renderedPages, timers,
                 resizes, pendingObs, visible, nEvents>>
  /\ UNCHANGED notViewer

ViewerNext ==
  \/ \E n \in 1..MaxPages : refresh(n)
  \/ \E z \in Scales : applyScale(z)
  \/ ResizeDone
  \/ TimerFires
  \/ \E v \in SUBSET PageIndices : Scroll(v)
  \/ ObserverFires
  \/ \E j \in jobs : GetPageDone(j)
  \/ \E j \in jobs : RenderDone(j)
  \/ \E j \in jobs : RenderFail(j)

ViewerStart ==
  ViewerInit /\ AppIdle /\ BoxIdle /\ TwinIdle /\ OpsIdle /\ LoadIdle /\ SigIdle /\ StoreIdle

ViewerSpec == ViewerStart /\ [][ViewerNext]_vars

\* ------------------------------------------------------------------------
\* Properties of the render scheduler
\* ------------------------------------------------------------------------
\* The job was started for another revision of the document, or at another
\* zoom, than the viewer has now
Stale(j) == j.doc # viewerDoc \/ j.zoom # scale

\* C5: a render job that completes after the document was replaced or after
\* the zoom changed since it started does not add its page to the rendered
\* pages
C5_StaleJobDiscarded ==
  [][\A j \in jobs :
       (j.pc = "render" /\ j \notin jobs' /\ Stale(j)) => j.page \notin renderedPages']_vars

\* C6: at most one render job is in flight (Rendering) at any time
C6_SingleFlight == Cardinality(jobs) <= 1

\* a job is in flight and another page waits in the queue, after a refresh
\* or a zoom change
C6_Witness == Cardinality(jobs) = 1 /\ renderQueue # <<>> /\ nEvents > 0

\* Nothing is pending: no job, no queued page, no timer, no callback
Quiescent ==
  /\ jobs = {} /\ renderQueue = <<>> /\ timers = 0 /\ resizes = {}
  /\ pendingObs = {}

Shows(p, doc) == canvas[p] # Blank /\ canvas[p][2] = doc

\* C7: once every job and callback that follows a refresh has run, every page
\* in the render-worthy range shows a render of the current revision of the
\* document
C7_VisiblePagesRendered ==
  (Quiescent /\ viewerDoc > 1)
    => \A p \in visible \cap PagesOf(totalPages) : Shows(p, viewerDoc)

\* The place of a page in the queue; a queue holds no page twice
Pos(q, p) == CHOOSE k \in 1..Len(q) : q[k] = p

Ahead(q, a, b) == InQueue(q, a) /\ InQueue(q, b) /\ Pos(q, a) < Pos(q, b)

\* C29: in every step of the viewer, with the queue taken as empty when the
\* step is a refresh or a zoom change (both set renderQueue = []): the pages
\* that stay in the queue keep their order, the pages that come in stand
\* behind them in the order of their queueRender calls, and a render job
\* that starts is the only job in flight and is for a page that was ahead
\* of every page that stays in the queue
C29_QueueFIFO ==
  [][LET old == IF viewerDoc' # viewerDoc \/ scale' # scale
                THEN <<>> ELSE renderQueue
     IN /\ \A a, b \in PageIndices :
             (a # b /\ InQueue(renderQueue', a) /\ InQueue(renderQueue', b)) =>
               (Ahead(renderQueue', a, b) <=>
                  IF InQueue(old, a)
                  THEN ~InQueue(old, b) \/ Ahead(old, a, b)
                  ELSE ~InQueue(old, b) /\ a < b)
        /\ \A j \in jobs' \ jobs :
             j.pc = "getPage" =>
               /\ jobs' = {j}
               /\ \A a \in PageIndices :
                    (InQueue(old, a) /\ InQueue(renderQueue', a))
                      => Ahead(old, j.page, a)]_vars

\* pages 0 and 1 were in range when the viewer was built: page 1 waited in
\* the queue while page 0 was rendered, and its job has started now
C29_Witness ==
  /\ nEvents = 0
  /\ totalPages = 2
  /\ renderedPages = {0}
  /\ renderQueue = <<>>
  /\ \E j \in jobs : j.page = 1 /\ j.pc = "getPage"

\* ------------------------------------------------------------------------
\* Boxes: from the overlay on screen to the rectangle filled on the page
\* ------------------------------------------------------------------------
\* PDF.js pages put on display: every source page, upright or turned
BoxPages == {getPage([SrcPage(id) EXCEPT !.rot = r]) : id \in 1..4, r \in {0, 90}}

\* Viewer.renderPage: redactOverlay.width = viewport.width at Viewer.scale
ViewerOverlay(pdfJsPage, s) ==
  [width |-> pdfJsPage.vw * s, height |-> pdfJsPage.vh * s]

\* getRedactionBoxesForPDF: box / this.scale (kept times 2)
BoxForPDF2(box, s) ==
  [x |-> (2 * box.x) \div s, y |-> (2 * box.y) \div s,
   width |-> (2 * box.width) \div s, height |-> (2 * box.height) \div s]

BoxInit ==
  /\ shownPage \in BoxPages
  /\ drawn = <<>>
  /\ painted = <<>>
  /\ zoom = 1
  /\ viewerBoxes = <<>>
  /\ drawnAt = <<>>
  /\ boxesForPDF = <<>>

\* Popup: mouseup on the overlay set up by renderPageForRedaction
PopupDraw(box) ==
  /\ painted = <<>>
  /\ Len(drawn) < MaxBoxes
  /\ box \in DragChoices(renderPageForRedaction(shownPage))
  /\ BoxKept(box)
  /\ drawn' = Append(drawn, box)
  /\ UNCHANGED <<shownPage, painted, zoom, viewerBoxes, drawnAt, boxesForPDF>>
  /\ UNCHANGED notBox

\* Popup: applyRedactionToPage steps 1 and 2 with the boxes as drawn
PopupApply ==
  /\ painted = <<>>
  /\ drawn # <<>>
  /\ painted' = <<applyRedactionBoxesToCanvas(renderPageToCanvas(shownPage), drawn)>>
  /\ UNCHANGED <<shownPage, drawn, zoom, viewerBoxes, drawnAt, boxesForPDF>>
  /\ UNCHANGED notBox

\* Viewer: overlay.onmouseup pushes the box in overlay pixels
ViewerMouseUp(box) ==
  /\ Len(viewerBoxes) < MaxBoxes
  /\ box \in DragChoices(ViewerOverlay(shownPage, zoom))
  /\ BoxKept(box)
  /\ viewerBoxes' = Append(viewerBoxes, box)
  /\ drawnAt' = Append(drawnAt, zoom)
  /\ UNCHANGED <<shownPage, drawn, painted, zoom, boxesForPDF>>
  /\ UNCHANGED notBox

\* Viewer.setZoom(zoomValue) with a number; rerenderAllPages leaves
\* Viewer.redactionBoxes as they are
setZoom(zoomValue) ==
  /\ zoomValue \in Scales
  /\ zoomValue # zoom
  /\ zoom' = zoomValue
  /\ UNCHANGED <<shownPage, drawn, painted, viewerBoxes, drawnAt, boxesForPDF>>
  /\ UNCHANGED notBox

getRedactionBoxesForPDF ==
  /\ viewerBoxes # <<>>
  /\ boxesForPDF' = [k \in 1..Len(viewerBoxes) |-> BoxForPDF2(viewerBoxes[k], zoom)]
  /\ UNCHANGED <<shownPage, drawn, painted, zoom, viewerBoxes, drawnAt>>
  /\ UNCHANGED notBox

BoxNext ==
  \/ \E box \in DragChoices(renderPageForRedaction(shownPage)) : PopupDraw(box)
  \/ PopupApply
  \/ \E box \in DragChoices(ViewerOverlay(shownPage, zoom)) : ViewerMouseUp(box)
  \/ \E z \in Scales : setZoom(z)
  \/ getRedactionBoxesForPDF

BoxStart ==
  BoxInit /\ AppIdle /\ ViewerIdle /\ TwinIdle /\ OpsIdle /\ LoadIdle /\ SigIdle /\ StoreIdle

BoxSpec == BoxStart /\ [][BoxNext]_vars

\* ------------------------------------------------------------------------
\* Properties of the box coordinates
\* ------------------------------------------------------------------------
\* The cells of a surface of the given size that a box covers entirely
CellsUnder(width, height, box) ==
  {c \in Cells :
     /\ 2 * box.x <= c[1] * width
     /\ 2 * (box.x + box.width) >= (c[1] + 1) * width
     /\ 2 * box.y <= c[2] * height
     /\ 2 * (box.y + box.height) >= (c[2] + 1) * height}

BlackCells(cv) == {c \in Cells : cv.px[c] = Black}

\* C9: whatever the display scale of the page the boxes were drawn on, the
\* cells filled black on the page are exactly the cells under the drawn boxes
C9_PaintedIsUnderBox ==
  painted # <<>> =>
    BlackCells(painted[1]) =
      UNION {CellsUnder(renderPageForRedaction(shownPage).width,
                        renderPageForRedaction(shownPage).height, drawn[k]) :
             k \in 1..Len(drawn)}

\* C13: every box painted on a page has width > 0 and height > 0 and lies
\* within the bounds of the page: validation against the page would neither
\* drop nor clip it
C13_PaintedBoxesClipped ==
  painted # <<>> =>
    drawn = validateRedactionBoxes(drawn, shownPage.vw, shownPage.vh)

\* C10: a box read back for application denotes the page region it was drawn
\* over, whatever zoom changes happened in between
C10_BoxesValidAcrossZoom ==
  \A k \in 1..Len(boxesForPDF) :
    boxesForPDF[k] = BoxForPDF2(viewerBoxes[k], drawnAt[k])

\* ------------------------------------------------------------------------
\* Redaction of one page, applied to two documents that differ only under
\* the boxes
\* ------------------------------------------------------------------------
\* Documents of up to MaxPages source pages
TwinDocs ==
  UNION {{[i \in 1..n |-> SrcPage(f[i])] : f \in [1..n -> 1..4]} : n \in 1..MaxPages}

\* Boxes in points of the viewport at scale 1: left half, top half, all
PointBoxes(pdfJsPage) ==
  {[x |-> 0, y |-> 0, width |-> pdfJsPage.vw \div 2, height |-> pdfJsPage.vh],
   [x |-> 0, y |-> 0, width |-> pdfJsPage.vw, height |-> pdfJsPage.vh \div 2],
   [x |-> 0, y |-> 0, width |-> pdfJsPage.vw, height |-> pdfJsPage.vh]}

\* The cells of the (unrotated) page that lie under the boxes
PageCellsUnder(page, boxes) ==
  {PageCellAt(page.rot, c) :
     c \in UNION {CellsUnder(getPage(page).vw, getPage(page).vh, boxes[k]) :
                  k \in 1..Len(boxes)}}

\* Other content in the cells S of a page: the text there is edited, or one
\* more object is drawn there
Differ(page, S, how) ==
  IF how = "edit"
  THEN [page EXCEPT !.objs[1].px =
          [c \in Cells |-> IF c \in S THEN <<"c", 0, c[1], c[2]>> ELSE @[c]]]
  ELSE [page EXCEPT !.objs =
          Append(@, [kind |-> "vec",
                     px |-> [c \in Cells |-> IF c \in S THEN <<"c", 0, c[1], c[2]>>
                                             ELSE None]])]

TwinInit ==
  /\ docA \in TwinDocs
  /\ docB = docA
  /\ twinPage \in PageIndices
  /\ twinPage < Len(docA)
  /\ twinBoxes = <<>>
  /\ twinDiff = {}
  /\ twinPc = "ready"

\* rotatePage(pdfDoc, twinPage, 90) on both documents
TwinRotate ==
  /\ twinPc = "ready"
  /\ twinBoxes = <<>>
  /\ docA' = rotatePage(docA, twinPage, 90)
  /\ docB' = rotatePage(docB, twinPage, 90)
  /\ UNCHANGED <<twinPage, twinBoxes, twinDiff, twinPc>>
  /\ UNCHANGED notTwin

\* The boxes to redact are chosen
TwinBox(box) ==
  /\ twinPc = "ready"
  /\ twinDiff = {}
  /\ Len(twinBoxes) < MaxBoxes
  /\ box \in PointBoxes(getPage(docA[twinPage + 1]))
  /\ twinBoxes' = Append(twinBoxes, box)
  /\ UNCHANGED <<docA, docB, twinPage, twinDiff, twinPc>>
  /\ UNCHANGED notTwin

\* docB gets other content in some cells under the boxes
TwinDiffer(S, how) ==
  /\ twinPc = "ready"
  /\ twinDiff = {}
  /\ S # {}
  /\ S \subseteq PageCellsUnder(docA[twinPage + 1], twinBoxes)
  /\ how \in {"edit", "add"}
  /\ docB' = [docA EXCEPT ![twinPage + 1] = Differ(@, S, how)]
  /\ twinDiff' = S
  /\ UNCHANGED <<docA, twinPage, twinBoxes, twinPc>>
  /\ UNCHANGED notTwin

\* applyRedactionToPage on each document, with the page rendered by PDF.js
\* from that document
TwinRedact ==
  /\ twinPc = "ready"
  /\ twinBoxes # <<>>
  /\ docA' = applyRedactionToPage(docA, getPage(docA[twinPage + 1]), twinPage, twinBoxes)
  /\ docB' = applyRedactionToPage(docB, getPage(docB[twinPage + 1]), twinPage, twinBoxes)
  /\ twinPc' = "redacted"
  /\ UNCHANGED <<twinPage, twinBoxes, twinDiff>>
  /\ UNCHANGED notTwin

TwinNext ==
  \/ TwinRotate
  \/ \E box \in PointBoxes(getPage(docA[twinPage + 1])) : TwinBox(box)
  \/ \E S \in SUBSET Cells, how \in {"edit", "add"} : TwinDiffer(S, how)
  \/ TwinRedact

TwinStart ==
  TwinInit /\ AppIdle /\ ViewerIdle /\ BoxIdle /\ OpsIdle /\ LoadIdle /\ SigIdle /\ StoreIdle

TwinSpec == TwinStart /\ [][TwinNext]_vars

\* ------------------------------------------------------------------------
\* Properties of the redaction of a page
\* ------------------------------------------------------------------------
\* C2: after the redaction of a page its content is a single full-page image,
\* and two documents that differed only under the boxes are identical
C2_RedactionDiscardsObjects ==
  twinPc = "redacted" =>
    /\ docA = docB
    /\ Len(docA[twinPage + 1].objs) = 1
    /\ docA[twinPage + 1].objs[1].kind = "img"

\* two documents that differed under the boxes have been redacted
C2_Witness == twinPc = "redacted" /\ twinDiff # {}

\* ------------------------------------------------------------------------
\* Calls of the PDF operations module: extractPages, reorderPages,
\* deletePages and mergePDFs on documents and index lists of any shape
\* ------------------------------------------------------------------------
\* Index values: the indices of the pages, one below and one above
IndexValues == (0 - 1)..MaxOpPages

IndexLists == UNION {[1..n -> IndexValues] : n \in 0..MaxLen}

\* Up to MaxDocs loaded documents of up to MaxOpPages pages; page i of
\* document j has the content 10 * j + i; the first page is upright, the
\* second is turned by 90, the third by 180 and so on
LoadedPage(j, i) == [SrcPage(10 * j + i) EXCEPT !.rot = 90 * ((i - 1) % 4)]

OpsInputs ==
  UNION {{[j \in 1..m |-> [i \in 1..f[j] |-> LoadedPage(j, i)]] :
            f \in [1..m -> 1..MaxOpPages]} : m \in 0..MaxDocs}

OpsInit ==
  /\ opDocs \in OpsInputs
  /\ opBefore = opDocs
  /\ opArg = <<>>
  /\ opOut = <<>>
  /\ opPc = "ready"

\* extractPages(pdfDoc, pageIndices): resolves with the new document, or
\* rejects when copyPages meets an index that is no page of pdfDoc
CallExtractPages(pageIndices) ==
  /\ opPc = "ready"
  /\ opDocs # <<>>
  /\ opArg' = pageIndices
  /\ IF CopyFails(opDocs[1], SortAsc(pageIndices))
     THEN opPc' = "extractFailed" /\ opOut' = <<>>
     ELSE opPc' = "extracted" /\ opOut' = extractPages(opDocs[1], pageIndices)
  /\ UNCHANGED <<opDocs, opBefore>>
  /\ UNCHANGED notOps

\* reorderPages(pdfDoc, newOrder): resolves with the new document, or
\* rejects when copyPages meets an index that is no page of pdfDoc
CallReorderPages(newOrder) ==
  /\ opPc = "ready"
  /\ opDocs # <<>>
  /\ opArg' = newOrder
  /\ IF CopyFails(opDocs[1], newOrder)
     THEN opPc' = "reorderFailed" /\ opOut' = <<>>
     ELSE opPc' = "reordered" /\ opOut' = reorderPages(opDocs[1], newOrder)
  /\ UNCHANGED <<opDocs, opBefore>>
  /\ UNCHANGED notOps

\* deletePages(pdfDoc, pageIndices): pdfDoc itself is changed and returned
CallDeletePages(pageIndices) ==
  /\ opPc = "ready"
  /\ opDocs # <<>>
  /\ opArg' = pageIndices
  /\ opDocs' = [opDocs EXCEPT ![1] = deletePages(@, pageIndices)]
  /\ opOut' = opDocs'[1]
  /\ opPc' = "deleted"
  /\ UNCHANGED opBefore
  /\ UNCHANGED notOps

\* mergePDFs(pdfDocs)
CallMergePDFs ==
  /\ opPc = "ready"
  /\ opOut' = mergePDFs(opDocs)
  /\ opPc' = "merged"
  /\ UNCHANGED <<opDocs, opBefore, opArg>>
  /\ UNCHANGED notOps

\* The angles a page is turned by
Deltas == {0 - 90, 90, 180}

\* rotatePage(pdfDoc, pageIndex, degrees) on the document as earlier calls
\* of rotatePage left it; opArg lists the calls made, <<pageIndex, degrees>>
CallRotatePage(pageIndex, degrees) ==
  /\ opPc \in {"ready", "rotated"}
  /\ opDocs # <<>>
  /\ Len(opArg) < MaxLen
  /\ ValidIndex(opDocs[1], pageIndex)
  /\ opArg' = Append(opArg, <<pageIndex, degrees>>)
  /\ opDocs' = [opDocs EXCEPT ![1] = rotatePage(@, pageIndex, degrees)]
  /\ opOut' = opDocs'[1]
  /\ opPc' = "rotated"
  /\ UNCHANGED opBefore
  /\ UNCHANGED notOps

\* Where the image of a stamp is drawn
OpStampCells == {{<<0, 1>>}, {<<0, 0>>, <<0, 1>>}}

\* insertImageOnPage(pdfDoc, pageIndex, imageBytes, imageType, options) on
\* the document as earlier calls left it; opArg lists the calls made,
\* <<pageIndex, cells>>, and the image of the n-th call is image n
CallInsertImageOnPage(pageIndex, cells) ==
  /\ opPc \in {"ready", "stamped"}
  /\ opDocs # <<>>
  /\ Len(opArg) < MaxLen
  /\ ValidIndex(opDocs[1], pageIndex)
  /\ opArg' = Append(opArg, <<pageIndex, cells>>)
  /\ opDocs' = [opDocs EXCEPT ![1] =
                  insertImageOnPage(@, pageIndex, Len(opArg) + 1, cells)]
  /\ opOut' = opDocs'[1]
  /\ opPc' = "stamped"
  /\ UNCHANGED opBefore
  /\ UNCHANGED notOps

\* The options the split modal hands to its onConfirm callback: every page
\* on its own, or a new file every n pages
SplitOptions ==
  {[method |-> "all", n |-> 0]}
    \cup {[method |-> "every", n |-> n] : n \in 1..MaxOpPages}

\* The split request: whatever was chosen, the one split the program has is
\* splitPDF(state.pdfDoc); opOut is the list of documents it resolves with
CallSplitPDF(options) ==
  /\ opPc = "ready"
  /\ opDocs # <<>>
  /\ opArg' = options
  /\ opOut' = splitPDF(opDocs[1])
  /\ opPc' = "split"
  /\ UNCHANGED <<opDocs, opBefore>>
  /\ UNCHANGED notOps

\* mergePDFs on the documents splitPDF resolved with
CallMergeSplit ==
  /\ opPc = "split"
  /\ opOut' = mergePDFs(opOut)
  /\ opPc' = "splitMerged"
  /\ UNCHANGED <<opDocs, opBefore, opArg>>
  /\ UNCHANGED notOps

\* The boxes handed to validateRedactionBoxes, in points: inside the page,
\* across its left, top and right edge, beyond it, and without area
OpBoxes ==
  [x : {0 - 20, 0, 480, 520}, y : {0 - 20, 0}, width : {0, 30}, height : {30}]

OpBoxLists == UNION {[1..n -> OpBoxes] : n \in 0..MaxLen}

\* validateRedactionBoxes(boxes, pageWidth, pageHeight) with the size of the
\* first page of the document
CallValidateRedactionBoxes(boxes) ==
  /\ opPc = "ready"
  /\ opDocs # <<>>
  /\ opArg' = boxes
  /\ opOut' = validateRedactionBoxes(boxes, getPageDimensions(opDocs[1], 0).width,
                                     getPageDimensions(opDocs[1], 0).height)
  /\ opPc' = "validated"
  /\ UNCHANGED <<opDocs, opBefore>>
  /\ UNCHANGED notOps

OpsNext ==
  \/ \E boxes \in OpBoxLists : CallValidateRedactionBoxes(boxes)
  \/ \E options \in SplitOptions : CallSplitPDF(options)
  \/ CallMergeSplit
  \/ \E i \in 0..(MaxOpPages - 1), degrees \in Deltas : CallRotatePage(i, degrees)
  \/ \E i \in 0..(MaxOpPages - 1), cells \in OpStampCells :
       CallInsertImageOnPage(i, cells)
  \/ \E pageIndices \in IndexLists : CallExtractPages(pageIndices)
  \/ \E newOrder \in IndexLists : CallReorderPages(newOrder)
  \/ \E pageIndices \in IndexLists : CallDeletePages(pageIndices)
  \/ CallMergePDFs

OpsStart ==
  OpsInit /\ AppIdle /\ ViewerIdle /\ BoxIdle /\ TwinIdle /\ LoadIdle /\ SigIdle /\ StoreIdle

OpsSpec == OpsStart /\ [][OpsNext]_vars

\* ------------------------------------------------------------------------
\* Properties of the PDF operations module
\* ------------------------------------------------------------------------
\* C14: the document extractPages returns for the index list L has |L|
\* pages, its k-th page is a copy of page L[k] of the source, duplicates
\* included, and the source document is as it was
C14_ExtractInRequestedOrder ==
  opPc = "extracted" =>
    /\ Len(opOut) = Len(opArg)
    /\ \A k \in 1..Len(opArg) : opOut[k] = opBefore[1][opArg[k] + 1]
    /\ opDocs = opBefore

\* newOrder names every page of a document of pageCount pages exactly once
IsPermutation(newOrder, pageCount) ==
  /\ Len(newOrder) = pageCount
  /\ {newOrder[k] : k \in 1..Len(newOrder)} = 0..(pageCount - 1)

\* C15: reorderPages returns a document only when newOrder is a bijection
\* over the pages of the source: a list with a duplicate, a missing or an
\* out-of-range entry is rejected
C15_ReorderRejectsNonPermutation ==
  opPc = "reordered" => IsPermutation(opArg, Len(opBefore[1]))

PagesOfDoc(d) == {d[k] : k \in 1..Len(d)}

\* C16: for a permutation newOrder, reorderPages returns a new document with
\* the pages of the source, page newOrder[k] of the source at position k, and
\* the source document is as it was; when the copy fails no document is
\* returned and the source is as it was
C16_ReorderIsBijection ==
  /\ (opPc = "reordered" /\ IsPermutation(opArg, Len(opBefore[1]))) =>
       /\ Len(opOut) = Len(opBefore[1])
       /\ \A k \in 1..Len(opOut) : opOut[k] = opBefore[1][opArg[k] + 1]
       /\ PagesOfDoc(opOut) = PagesOfDoc(opBefore[1])
       /\ opDocs = opBefore
  /\ opPc = "reorderFailed" => (opOut = <<>> /\ opDocs = opBefore)

\* the two pages of a document have been swapped
C16_Witness == opPc = "reordered" /\ opArg = <<1, 0>> /\ Len(opOut) = 2

\* C18: deletePages with the one index i on a document of N > 1 pages,
\* 0 <= i < N, leaves N - 1 pages: the pages before i where they were, the
\* pages after i one position lower
C18_DeleteRemovesThatPage ==
  (/\ opPc = "deleted"
   /\ Len(opArg) = 1
   /\ Len(opBefore[1]) > 1
   /\ ValidIndex(opBefore[1], opArg[1])) =>
    /\ Len(opOut) = Len(opBefore[1]) - 1
    /\ \A k \in 1..Len(opOut) :
         opOut[k] = opBefore[1][IF k <= opArg[1] THEN k ELSE k + 1]
    /\ opDocs[1] = opOut

\* the middle page of a three-page document has been deleted
C18_Witness ==
  opPc = "deleted" /\ opArg = <<1>> /\ Len(opBefore[1]) = 3 /\ Len(opOut) = 2

\* The number of pages of the first j documents of a list
RECURSIVE PagesUpTo(_, _)
PagesUpTo(pdfDocs, j) ==
  IF j = 0 THEN 0 ELSE PagesUpTo(pdfDocs, j - 1) + Len(pdfDocs[j])

\* C19: the document mergePDFs returns has as many pages as the inputs have
\* together; the pages of input j follow those of the inputs before it, in
\* their own order; the inputs are as they were
C19_MergeConcatenates ==
  opPc = "merged" =>
    /\ Len(opOut) = PagesUpTo(opBefore, Len(opBefore))
    /\ \A j \in 1..Len(opBefore) : \A i \in 1..Len(opBefore[j]) :
         opOut[PagesUpTo(opBefore, j - 1) + i] = opBefore[j][i]
    /\ opDocs = opBefore

\* two documents, the second of more than one page, have been merged
C19_Witness ==
  opPc = "merged" /\ Len(opBefore) = 2 /\ Len(opBefore[2]) > 1
    /\ Len(opOut) > Len(opBefore[2])

\* C20: mergePDFs returns no document when it is given no documents
C20_MergeRejectsEmptySet ==
  opPc = "merged" => opBefore # <<>>

\* The sum of the angles by which the calls listed in calls turned page i
RECURSIVE TurnedBy(_, _)
TurnedBy(calls, i) ==
  IF calls = <<>> THEN 0
  ELSE (IF calls[1][1] = i THEN calls[1][2] ELSE 0) + TurnedBy(Tail(calls), i)

\* C21: after any sequence of calls of rotatePage with -90, 90 or 180 the
\* document has the pages it had, each with its size and content; the
\* rotation of every page is its rotation before plus the angles it was
\* turned by, modulo 360, hence one of 0, 90, 180, 270
C21_RotateModulo360 ==
  opPc = "rotated" =>
    /\ Len(opOut) = Len(opBefore[1])
    /\ \A k \in 1..Len(opOut) :
         /\ opOut[k].rot \in Rotations
         /\ opOut[k].rot = (opBefore[1][k].rot + TurnedBy(opArg, k - 1)) % 360
         /\ opOut[k] = [opBefore[1][k] EXCEPT !.rot = opOut[k].rot]

\* a page at rotation 0 has been turned by -90
C21_Witness ==
  opPc = "rotated" /\ opArg = <<<<0, 0 - 90>>>> /\ opOut[1].rot = 270

\* C22: turning a page by d1 and then by d2 leaves the document that turning
\* it once by (d1 + d2) mod 360 leaves
C22_RotationComposes ==
  (/\ opPc = "rotated"
   /\ Len(opArg) = 2
   /\ opArg[1][1] = opArg[2][1]) =>
    opOut = rotatePage(opBefore[1], opArg[1][1], (opArg[1][2] + opArg[2][2]) % 360)

\* a page at rotation 90 has been turned by -90 twice: once by 180
C22_Witness ==
  /\ opPc = "rotated"
  /\ opArg = <<<<1, 0 - 90>>, <<1, 0 - 90>>>>
  /\ opBefore[1][2].rot = 90
  /\ opOut[2].rot = 270

\* C23: merging the documents splitPDF made of a document gives a document
\* with the pages of the original, in the original order; the original is as
\* it was
C23_SplitThenMerge ==
  opPc = "splitMerged" => (opOut = opBefore[1] /\ opDocs = opBefore)

\* a document of three pages has been split and merged again
C23_Witness == opPc = "splitMerged" /\ Len(opBefore[1]) = 3 /\ Len(opOut) = 3

\* C24: a split every N pages of a document of P pages gives ceil(P / N)
\* documents with P pages together, each but possibly the last of N pages
C24_SplitEveryN ==
  (opPc = "split" /\ opArg.method = "every") =>
    LET P == Len(opBefore[1])
        N == opArg.n
    IN /\ Len(opOut) = (P + N - 1) \div N
       /\ PagesUpTo(opOut, Len(opOut)) = P
       /\ \A k \in 1..(Len(opOut) - 1) : Len(opOut[k]) = N

\* The images the calls listed in calls drew on page i, in the order of the
\* calls
StampsOn(calls, i) ==
  LET OnPage(n) == calls[n][1] = i
      ns == SelectSeq([n \in 1..Len(calls) |-> n], OnPage)
  IN [m \in 1..Len(ns) |-> StampObj(ns[m], calls[ns[m]][2])]

\* C30: after any sequence of calls of insertImageOnPage the document has
\* the pages it had, in their order, each with its size, its rotation and
\* the content it had, and every page holds on top of that content one image
\* for each call made for it, in the order of the calls
C30_StampAddsOnly ==
  opPc = "stamped" =>
    /\ Len(opOut) = Len(opBefore[1])
    /\ \A k \in 1..Len(opOut) :
         opOut[k] = [opBefore[1][k] EXCEPT !.objs = @ \o StampsOn(opArg, k - 1)]

\* the second page of a document of three pages has been stamped twice
C30_Witness ==
  /\ opPc = "stamped"
  /\ Len(opBefore[1]) = 3
  /\ Len(opArg) = 2 /\ opArg[1][1] = 1 /\ opArg[2][1] = 1
  /\ Len(opOut[2].objs) = Len(opBefore[1][2].objs) + 2
  /\ opOut[2].objs[Len(opOut[2].objs)] # opOut[2].objs[Len(opOut[2].objs) - 1]

\* ------------------------------------------------------------------------
\* Popup script: loading a file (loadPDF)
\* ------------------------------------------------------------------------
\* What a chosen file is: a PDF, a file of another type, a PDF above
\* MAX_FILE_SIZE, a file named .pdf that does not begin with %PDF-, a file
\* with the header whose body no library parses, a PDF encrypted with a
\* password needed to open it, a PDF encrypted with an owner password only
FileKinds ==
  {"pdf", "notPdf", "tooLarge", "noHeader", "corrupt", "userPassword",
   "ownerPassword"}

FileNames == {"a.pdf", "b.pdf"}

LoadFiles == [kind : FileKinds, name : FileNames]

\* The pages the bytes of the file encode
FileDoc(file) ==
  IF file.name = "a.pdf" THEN <<SrcPage(1)>> ELSE <<SrcPage(2), SrcPage(3)>>

NoFile == [kind |-> "none", name |-> "none"]

NoDoc == [file |-> NoFile, pages |-> <<>>]

\* validatePDF(file): the error, or "valid"
validatePDF(file) ==
  CASE file.kind = "notPdf"   -> "Please select a PDF file"
    [] file.kind = "tooLarge" -> "File is too large"
    [] OTHER                  -> "valid"

\* loadPDFFile(file): the error it throws, or "none" when it resolves with
\* {data, name}
loadPDFFile(file) ==
  IF validatePDF(file) # "valid" THEN validatePDF(file)
  ELSE IF file.kind = "noHeader" THEN "Invalid PDF file"
  ELSE "none"

\* PDFLib.PDFDocument.load(data, {ignoreEncryption: true}) resolves: the
\* bytes parse; encryption is not looked at
Parses(data) == data.kind \in {"pdf", "userPassword", "ownerPassword"}

\* pdfjsLib.getDocument({data}) resolves: the bytes parse and no password is
\* needed to open them
Opens(data) == data.kind \in {"pdf", "ownerPassword"}

LoadInit ==
  /\ pdfData = NoFile
  /\ fileName = "none"
  /\ loadedDoc = NoDoc
  /\ loadedJsDoc = NoDoc
  /\ uploadShown = TRUE
  /\ loads = <<>>
  /\ nLoads = 0
  /\ loadLast = [file |-> NoFile, status |-> "none", error |-> "none"]

\* The promise chain of load k ends: .catch shows the error, or the last
\* .then hides the loading indicator
LoadEnded(k, status, error) ==
  /\ loadLast' = [file |-> loads[k].file, status |-> status, error |-> error]
  /\ loads' = RemoveAt(loads, k)

\* loadPDF(file), up to the promise of FileHandler.loadPDFFile; a file can be
\* chosen or dropped while the upload area is on display
loadPDF(file) ==
  /\ uploadShown
  /\ nLoads < MaxRequests
  /\ Len(loads) < MaxInFlight
  /\ loads' = Append(loads, [file |-> file, pc |-> "read", opened |-> NoFile])
  /\ nLoads' = nLoads + 1
  /\ UNCHANGED <<pdfData, fileName, loadedDoc, loadedJsDoc, uploadShown, loadLast>>
  /\ UNCHANGED notLoad

\* loadPDFFile resolves: state.pdfData and state.fileName are set and
\* PDFOperations.loadPDFDocument(result.data) is called
FileRead(k) ==
  /\ k \in 1..Len(loads)
  /\ loads[k].pc = "read"
  /\ loadPDFFile(loads[k].file) = "none"
  /\ pdfData' = loads[k].file
  /\ fileName' = loads[k].file.name
  /\ loads' = [loads EXCEPT ![k].pc = "parse"]
  /\ UNCHANGED <<loadedDoc, loadedJsDoc, uploadShown, nLoads, loadLast>>
  /\ UNCHANGED notLoad

\* loadPDFFile throws: the type, the size or the header is wrong
FileRejected(k) ==
  /\ k \in 1..Len(loads)
  /\ loads[k].pc = "read"
  /\ loadPDFFile(loads[k].file) # "none"
  /\ LoadEnded(k, "error", loadPDFFile(loads[k].file))
  /\ UNCHANGED <<pdfData, fileName, loadedDoc, loadedJsDoc, uploadShown, nLoads>>
  /\ UNCHANGED notLoad

\* loadPDFDocument resolves: state.pdfDoc = pdfDoc, and PDF.js is handed the
\* bytes state.pdfData holds now
DocParsed(k) ==
  /\ k \in 1..Len(loads)
  /\ loads[k].pc = "parse"
  /\ Parses(loads[k].file)
  /\ loadedDoc' = [file |-> loads[k].file, pages |-> FileDoc(loads[k].file)]
  /\ loads' = [loads EXCEPT ![k].pc = "open", ![k].opened = pdfData]
  /\ UNCHANGED <<pdfData, fileName, loadedJsDoc, uploadShown, nLoads, loadLast>>
  /\ UNCHANGED notLoad

\* PDF-lib cannot parse the bytes
DocParseFail(k) ==
  /\ k \in 1..Len(loads)
  /\ loads[k].pc = "parse"
  /\ ~Parses(loads[k].file)
  /\ LoadEnded(k, "error", "Failed to parse PDF document")
  /\ UNCHANGED <<pdfData, fileName, loadedDoc, loadedJsDoc, uploadShown, nLoads>>
  /\ UNCHANGED notLoad

\* getDocument resolves: state.pdfJsDoc = pdfJsDoc, the upload area is
\* hidden and the page thumbnails are shown
DocOpened(k) ==
  /\ k \in 1..Len(loads)
  /\ loads[k].pc = "open"
  /\ Opens(loads[k].opened)
  /\ loadedJsDoc' = [file |-> loads[k].opened,
                     pages |-> getDocument(save(FileDoc(loads[k].opened)))]
  /\ uploadShown' = FALSE
  /\ LoadEnded(k, "ok", "none")
  /\ UNCHANGED <<pdfData, fileName, loadedDoc, nLoads>>
  /\ UNCHANGED notLoad

\* getDocument rejects: PDF.js cannot parse the bytes or asks for a password
DocOpenFail(k) ==
  /\ k \in 1..Len(loads)
  /\ loads[k].pc = "open"
  /\ ~Opens(loads[k].opened)
  /\ LoadEnded(k, "error", IF loads[k].opened.kind = "userPassword"
                           THEN "No password given" ELSE "Invalid PDF structure")
  /\ UNCHANGED <<pdfData, fileName, loadedDoc, loadedJsDoc, uploadShown, nLoads>>
  /\ UNCHANGED notLoad

LoadNext ==
  \/ \E file \in LoadFiles : loadPDF(file)
  \/ \E k \in 1..MaxInFlight : FileRead(k)
  \/ \E k \in 1..MaxInFlight : FileRejected(k)
  \/ \E k \in 1..MaxInFlight : DocParsed(k)
  \/ \E k \in 1..MaxInFlight : DocParseFail(k)
  \/ \E k \in 1..MaxInFlight : DocOpened(k)
  \/ \E k \in 1..MaxInFlight : DocOpenFail(k)

LoadStart ==
  /\ LoadInit /\ AppIdle /\ ViewerIdle /\ BoxIdle /\ TwinIdle /\ OpsIdle
  /\ SigIdle /\ StoreIdle

LoadSpec == LoadStart /\ [][LoadNext]_vars

\* ------------------------------------------------------------------------
\* Properties of loading
\* ------------------------------------------------------------------------
Unparsable == {"noHeader", "corrupt"}

Encrypted == {"userPassword", "ownerPassword"}

\* C25: loading a file whose bytes cannot be parsed and loading an encrypted
\* file both end with an error, and neither state.pdfDoc nor state.pdfJsDoc
\* is ever a document of such a file
C25_LoadRejectsUnreadable ==
  /\ loadLast.file.kind \in Unparsable \cup Encrypted => loadLast.status = "error"
  /\ loadedDoc.file.kind \notin Unparsable \cup Encrypted
  /\ loadedJsDoc.file.kind \notin Unparsable \cup Encrypted

\* ------------------------------------------------------------------------
\* Placing a signature: from the preview on screen to the page
\* ------------------------------------------------------------------------
\* Where the user leaves the signature preview, in pixels of the page
\* canvas: x, y from its top left corner
SigRects ==
  {[x |-> x, y |-> y, width |-> 100, height |-> 50] : x \in {0, 50}, y \in {0, 50, 80}}

\* setupSignaturePlacement / startSignaturePlacement: the preview starts at
\* left 50px, top 50px with the size of the signature
DefaultRect == [x |-> 50, y |-> 50, width |-> 100, height |-> 50]

NoPlacement == [via |-> "none", xN |-> 0, yN |-> 0, widthN |-> 0, heightN |-> 0, den |-> 1]

SigInit ==
  /\ sigPage \in BoxPages
  /\ sigZoom \in Scales
  /\ sigRect = DefaultRect
  /\ sigOut = NoPlacement

\* The preview is dragged to another place
DragSignature(rect) ==
  /\ rect \in SigRects
  /\ rect # sigRect
  /\ sigRect' = rect
  /\ sigOut' = NoPlacement
  /\ UNCHANGED <<sigPage, sigZoom>>
  /\ UNCHANGED notSig

\* getSignaturePlacement of the viewer built on the state object: every
\* number is a fraction over state.scale; canvas.height is the height of the
\* viewport at state.scale
getSignaturePlacement ==
  /\ sigOut' = [via |-> "state",
                xN |-> sigRect.x,
                yN |-> ViewerOverlay(sigPage, sigZoom).height - sigRect.y - sigRect.height,
                widthN |-> sigRect.width,
                heightN |-> sigRect.height,
                den |-> sigZoom]
  /\ UNCHANGED <<sigPage, sigZoom, sigRect>>
  /\ UNCHANGED notSig

\* Viewer.getSignaturePlacement: offsetLeft, offsetTop, offsetWidth and
\* offsetHeight of the preview element over this.scale
ViewerGetSignaturePlacement ==
  /\ sigOut' = [via |-> "Viewer",
                xN |-> sigRect.x,
                yN |-> sigRect.y,
                widthN |-> sigRect.width,
                heightN |-> sigRect.height,
                den |-> sigZoom]
  /\ UNCHANGED <<sigPage, sigZoom, sigRect>>
  /\ UNCHANGED notSig

\* Popup: getPlacement() of setupSignaturePlacement on the canvas made by
\* renderPageForRedaction, then handlePlaceSignature divides by
\* canvasScale = signPageCanvas.width / viewport.width
PopupGetPlacement ==
  /\ LET shown == renderPageForRedaction(sigPage)
     IN sigOut' = [via |-> "popup",
                   xN |-> sigRect.x * sigPage.vw,
                   yN |-> (shown.height - sigRect.y - sigRect.height) * sigPage.vw,
                   widthN |-> sigRect.width * sigPage.vw,
                   heightN |-> sigRect.height * sigPage.vw,
                   den |-> shown.width]
  /\ UNCHANGED <<sigPage, sigZoom, sigRect>>
  /\ UNCHANGED notSig

SigNext ==
  \/ \E rect \in SigRects : DragSignature(rect)
  \/ getSignaturePlacement
  \/ ViewerGetSignaturePlacement
  \/ PopupGetPlacement

SigStart ==
  /\ SigInit /\ AppIdle /\ ViewerIdle /\ BoxIdle /\ TwinIdle /\ OpsIdle
  /\ LoadIdle /\ StoreIdle

SigSpec == SigStart /\ [][SigNext]_vars

\* The scale of the preview on display, as a fraction, and its height in
\* pixels
PreviewScale(via) ==
  IF via = "popup"
  THEN [num |-> renderPageForRedaction(sigPage).num,
        den |-> renderPageForRedaction(sigPage).den]
  ELSE [num |-> sigZoom, den |-> 1]

PreviewHeight(via) ==
  IF via = "popup" THEN renderPageForRedaction(sigPage).height
  ELSE ViewerOverlay(sigPage, sigZoom).height

\* C31: the placement a getter returns is x_px / scale for x,
\* (pageHeight_px - y_px - height_px) / scale for y, and width and height
\* over scale (fractions compared by cross multiplication)
C31_PlacementToDocument ==
  sigOut.via # "none" =>
    LET sc == PreviewScale(sigOut.via)
        H == PreviewHeight(sigOut.via)
    IN /\ sigOut.xN * sc.num = sigRect.x * sc.den * sigOut.den
       /\ sigOut.yN * sc.num = (H - sigRect.y - sigRect.height) * sc.den * sigOut.den
       /\ sigOut.widthN * sc.num = sigRect.width * sc.den * sigOut.den
       /\ sigOut.heightN * sc.num = sigRect.height * sc.den * sigOut.den

-----------------------------------------------------------------------------
\* The signature library (signature-manager.js): a list of signatures kept in
\* browser.storage.local.  Every function reads the list, awaits, and writes
\* a whole list back, so calls that overlap interleave between the read and
\* the write.  A signature is [id, type, size, dims]: type and size (in KB)
\* are those of the image its imageData holds.

MAX_SIGNATURES == 10

MAX_IMAGE_SIZE == 500

ALLOWED_TYPES == {"image/png", "image/jpeg"}

\* The image files offered to saveSignature
SigFiles ==
  {[type |-> "image/png", size |-> 100], [type |-> "image/gif", size |-> 100],
   [type |-> "image/jpeg", size |-> 600]}

validateSignatureImage(file) ==
  IF file.type \notin ALLOWED_TYPES THEN "Please use PNG or JPEG format"
  ELSE IF file.size > MAX_IMAGE_SIZE THEN "Image is too large"
  ELSE "valid"

StoredSig(n) == [id |-> n, type |-> "image/png", size |-> 100, dims |-> "auto"]

\* The backups offered to importSignatures: json is what JSON.parse makes of
\* the string, complete tells whether every entry has id, name and imageData
Backups ==
  {[json |-> "object", complete |-> TRUE, sigs |-> <<>>],
   [json |-> "array", complete |-> FALSE, sigs |-> <<StoredSig(21)>>],
   [json |-> "array", complete |-> TRUE, sigs |-> <<StoredSig(21)>>],
   [json |-> "array", complete |-> TRUE,
    sigs |-> <<[StoredSig(22) EXCEPT !.type = "image/gif"]>>],
   [json |-> "array", complete |-> TRUE,
    sigs |-> <<StoredSig(21), [StoredSig(23) EXCEPT !.size = 600]>>]}

SigIds == {1, 21, 99}

StoreInit ==
  /\ store \in {[n \in 1..len |-> StoredSig(n)] :
                  len \in {1, MAX_SIGNATURES - 1, MAX_SIGNATURES}}
  /\ sigCalls = <<>>
  /\ nCalls = 0
  /\ callLast = [op |-> "none", error |-> "none"]

CallStarts == nCalls < MaxRequests /\ Len(sigCalls) < MaxInFlight

Suspended(call) ==
  /\ sigCalls' = Append(sigCalls, call)
  /\ nCalls' = nCalls + 1
  /\ UNCHANGED <<store, callLast>>

Thrown(op, error) ==
  /\ callLast' = [op |-> op, error |-> error]
  /\ nCalls' = nCalls + 1
  /\ UNCHANGED <<store, sigCalls>>

\* The call at position k goes on from the list it loaded to its write
Goes(k, signatures) ==
  /\ sigCalls' = [sigCalls EXCEPT ![k].pc = "set", ![k].sigs = signatures]
  /\ UNCHANGED <<store, nCalls, callLast>>

\* The call at position k throws after loading
Throws(k, error) ==
  /\ sigCalls' = RemoveAt(sigCalls, k)
  /\ callLast' = [op |-> sigCalls[k].op, error |-> error]
  /\ UNCHANGED <<store, nCalls>>

AtLimit_Off(signatures) == Len(signatures) > MAX_SIGNATURES

AtLimit(signatures) == Len(signatures) >= MAX_SIGNATURES

Slice(signatures) == SubSeq(signatures, 1, Min(Len(signatures), MAX_SIGNATURES))

\* saveSignature(name, imageFile) up to its first await
saveSignature(file) ==
  /\ CallStarts
  /\ IF validateSignatureImage(file) # "valid"
        THEN Thrown("save", validateSignatureImage(file))
        ELSE Suspended([op |-> "save", pc |-> "load", sigs |-> <<>>,
                        arg |-> [id |-> 30 + nCalls, type |-> file.type,
                                 size |-> file.size, dims |-> "auto"]])
  /\ UNCHANGED notStore

\* saveSignature from loadSignatures to the write
SaveLoaded(k) ==
  /\ k \in 1..Len(sigCalls)
  /\ sigCalls[k].op = "save" /\ sigCalls[k].pc = "load"
  /\ IF AtLimit(store)
        THEN Throws(k, "Maximum signatures reached")
        ELSE Goes(k, Append(store, sigCalls[k].arg))
  /\ UNCHANGED notStore

\* importSignatures(jsonString, replace) up to its first await
importSignatures(backup, replace) ==
  /\ CallStarts
  /\ IF backup.json # "array"
        THEN Thrown("import", "Invalid signature backup format")
        ELSE IF ~backup.complete
        THEN Thrown("import", "Invalid signature data in backup")
        ELSE IF replace
        THEN Suspended([op |-> "import", pc |-> "set",
                        sigs |-> Slice(backup.sigs), arg |-> backup.sigs])
        ELSE Suspended([op |-> "import", pc |-> "load", sigs |-> <<>>,
                        arg |-> backup.sigs])
  /\ UNCHANGED notStore

ImportLoaded(k) ==
  /\ k \in 1..Len(sigCalls)
  /\ sigCalls[k].op = "import" /\ sigCalls[k].pc = "load"
  /\ Goes(k, Slice(store \o sigCalls[k].arg))
  /\ UNCHANGED notStore

\* deleteSignature(signatureId) up to its first await
deleteSignature(signatureId) ==
  /\ CallStarts
  /\ Suspended([op |-> "delete", pc |-> "load", sigs |-> <<>>,
                 arg |-> signatureId])
  /\ UNCHANGED notStore

DeleteLoaded(k) ==
  /\ k \in 1..Len(sigCalls)
  /\ sigCalls[k].op = "delete" /\ sigCalls[k].pc = "load"
  /\ LET Other(sig) == sig.id # sigCalls[k].arg
         filtered == SelectSeq(store, Other)
     IN IF Len(filtered) = Len(store)
          THEN Throws(k, "Signature not found")
          ELSE Goes(k, filtered)
  /\ UNCHANGED notStore

\* updateSignatureDimensions(signatureId, width, height) up to its first
\* await
updateSignatureDimensions(signatureId) ==
  /\ CallStarts
  /\ Suspended([op |-> "update", pc |-> "load", sigs |-> <<>>,
                 arg |-> signatureId])
  /\ UNCHANGED notStore

UpdateLoaded(k) ==
  /\ k \in 1..Len(sigCalls)
  /\ sigCalls[k].op = "update" /\ sigCalls[k].pc = "load"
  /\ IF \A n \in 1..Len(store) : store[n].id # sigCalls[k].arg
        THEN Throws(k, "Signature not found")
        ELSE Goes(k, [n \in 1..Len(store) |->
                       IF store[n].id = sigCalls[k].arg
                         THEN [store[n] EXCEPT !.dims = "set"]
                         ELSE store[n]])
  /\ UNCHANGED notStore

\* browser.storage.local.set({ [STORAGE_KEY]: signatures }) of the call at
\* position k, and its return
StorageSet(k) ==
  /\ k \in 1..Len(sigCalls)
  /\ sigCalls[k].pc = "set"
  /\ store' = sigCalls[k].sigs
  /\ sigCalls' = RemoveAt(sigCalls, k)
  /\ callLast' = [op |-> sigCalls[k].op, error |-> "none"]
  /\ UNCHANGED nCalls
  /\ UNCHANGED notStore

StoreNext ==
  \/ \E file \in SigFiles : saveSignature(file)
  \/ \E backup \in Backups, replace \in BOOLEAN :
       importSignatures(backup, replace)
  \/ \E signatureId \in SigIds : deleteSignature(signatureId)
  \/ \E signatureId \in SigIds : updateSignatureDimensions(signatureId)
  \/ \E k \in 1..MaxInFlight : SaveLoaded(k)
  \/ \E k \in 1..MaxInFlight : ImportLoaded(k)
  \/ \E k \in 1..MaxInFlight : DeleteLoaded(k)
  \/ \E k \in 1..MaxInFlight : UpdateLoaded(k)
  \/ \E k \in 1..MaxInFlight : StorageSet(k)

StoreStart ==
  /\ StoreInit /\ AppIdle /\ ViewerIdle /\ BoxIdle /\ TwinIdle /\ OpsIdle
  /\ LoadIdle /\ SigIdle

StoreSpec == StoreStart /\ [][StoreNext]_vars

\* C32: every signature in the library is a PNG or JPEG image of at most
\* 500KB, after any sequence of save and import operations
C32_StoredAssetsValid ==
  \A n \in 1..Len(store) :
    validateSignatureImage([type |-> store[n].type, size |-> store[n].size])
      = "valid"

\* C33: the store holds at most MAX_SIGNATURES signatures after any sequence
\* of saveSignature, importSignatures, updateSignatureDimensions and
\* deleteSignature calls, overlapping ones included
C33_AtMostTen == Len(store) <= MAX_SIGNATURES

\* Two saves overlapped on a library of nine: both loaded nine signatures,
\* the first has written its ten and the second is about to write its own
C33_Witness ==
  /\ Len(store) = MAX_SIGNATURES
  /\ store[MAX_SIGNATURES].id = 30
  /\ callLast = [op |-> "save", error |-> "none"]
  /\ Len(sigCalls) = 1
  /\ sigCalls[1].op = "save" /\ sigCalls[1].pc = "set"
  /\ Len(sigCalls[1].sigs) = MAX_SIGNATURES
  /\ sigCalls[1].sigs[MAX_SIGNATURES].id = 31

-----------------------------------------------------------------------------
\* The render scheduler of the Viewer object, the second definition of
\* window.PDFViewer in viewer.js.  It runs on the variables of the viewer:
\* totalPages is the length of pageElements, canvas[p] holds what the canvas
\* of wrapper p shows with its dataset.renderedScale, and a page is named by
\* its index pageNum - 1.  A job captures the wrapper of its page when it
\* starts; doc tells the wrappers of which refresh those are.

\* What the functions of the Viewer object read besides the scheduler fields
ViewerCx == [doc |-> viewerDoc, pages |-> totalPages, shown |-> canvas,
             zoom |-> scale]

\* Viewer.processRenderQueue: threw tells that renderPage raised a TypeError
\* before returning a promise, this.pageElements[pageNum - 1] being undefined
ViewerProcessRenderQueue(st, cx) ==
  IF st.isRendering \/ st.renderQueue = <<>> THEN [st |-> st, threw |-> FALSE]
  ELSE LET pageIndex == Head(st.renderQueue)
           rest == [st EXCEPT !.isRendering = TRUE, !.renderQueue = Tail(@)]
       IN IF pageIndex >= cx.pages
            THEN [st |-> rest, threw |-> TRUE]
            ELSE [st |-> [rest EXCEPT !.jobs = @ \cup {RenderJob(pageIndex, cx)}],
                  threw |-> FALSE]

\* Viewer.queueRender(pageNum) for a page that has a wrapper
ViewerQueueRender(st, pageIndex, cx) ==
  IF InQueue(st.renderQueue, pageIndex) THEN [st |-> st, threw |-> FALSE]
  ELSE IF cx.shown[pageIndex] # Blank /\ cx.shown[pageIndex][3] = cx.zoom
  THEN [st |-> st, threw |-> FALSE]
  ELSE ViewerProcessRenderQueue([st EXCEPT !.renderQueue = Append(@, pageIndex)],
                                cx)

\* The loops of updateVisiblePages and of the observer callback over the
\* pages from index on; an exception ends the loop
RECURSIVE ViewerQueueFrom(_, _, _, _)
ViewerQueueFrom(st, index, isVisible, cx) ==
  IF index >= cx.pages THEN st
  ELSE IF index \notin isVisible THEN ViewerQueueFrom(st, index + 1, isVisible, cx)
  ELSE LET r == ViewerQueueRender(st, index, cx)
       IN IF r.threw THEN r.st ELSE ViewerQueueFrom(r.st, index + 1, isVisible, cx)

ViewerUpdateVisiblePages(st, isVisible, cx) == ViewerQueueFrom(st, 0, isVisible, cx)

\* .catch(function(error) {...}) of processRenderQueue: an exception raised
\* in it is caught by nothing
ViewerCatch(st, cx) ==
  ViewerProcessRenderQueue([st EXCEPT !.isRendering = FALSE], cx).st

\* .then(function() {...}) of processRenderQueue: an exception raised in it
\* rejects the promise .catch is chained to
ViewerThen(st, cx) ==
  LET r == ViewerProcessRenderQueue([st EXCEPT !.isRendering = FALSE], cx)
  IN IF r.threw THEN ViewerCatch(r.st, cx) ELSE r.st

\* The Viewer object after init(options) and load(pdfJsDoc)
ViewerLoad ==
  /\ viewerDoc = 1
  /\ totalPages \in 1..MaxPages
  /\ scale = 1
  /\ canvas = NoCanvas
  /\ renderedPages = {}
  /\ visible \in (SUBSET PageIndices) \ {{}}
  /\ LET st == ViewerUpdateVisiblePages(
                 [renderQueue |-> <<>>, isRendering |-> FALSE, jobs |-> {}], visible,
                 [doc |-> 1, pages |-> totalPages, shown |-> NoCanvas, zoom |-> 1])
     IN /\ renderQueue = st.renderQueue
        /\ isRendering = st.isRendering
        /\ jobs = st.jobs
  /\ timers = 0
  /\ resizes = {}
  /\ pendingObs = visible \cap PagesOf(totalPages)
  /\ nEvents = 0

\* Viewer.refresh(pdfJsDoc): new wrappers; the render queue is kept
ViewerRefresh(numPages) ==
  /\ nEvents < MaxEvents
  /\ numPages \in 1..MaxPages
  /\ viewerDoc' = viewerDoc + 1
  /\ totalPages' = numPages
  /\ canvas' = NoCanvas
  /\ pendingObs' = visible \cap PagesOf(numPages)
  /\ Commit(ViewerUpdateVisiblePages(Sched, visible,
                                     [doc |-> viewerDoc + 1, pages |-> numPages,
                                      shown |-> NoCanvas, zoom |-> scale]))
  /\ nEvents' = nEvents + 1
  /\ UNCHANGED <<scale, renderedPages, timers, resizes, visible>>
  /\ UNCHANGED notViewer

\* Viewer.setZoom(zoomValue) with a number: rerenderAllPages()
ViewerRerenderAllPages(zoomValue) ==
  /\ nEvents < MaxEvents
  /\ zoomValue \in Scales
  /\ scale' = zoomValue
  /\ canvas' = [p \in PageIndices |-> IF p < totalPages THEN Blank ELSE canvas[p]]
  /\ Commit([Sched EXCEPT !.renderQueue = <<>>])
  /\ timers' = timers + 1
  /\ nEvents' = nEvents + 1
  /\ UNCHANGED <<viewerDoc, totalPages, renderedPages, resizes, pendingObs, visible>>
  /\ UNCHANGED notViewer

\* The timeout set by rerenderAllPages or by the scroll listener:
\* updateVisiblePages()
ViewerTimerFires ==
  /\ timers > 0
  /\ timers' = timers - 1
  /\ Commit(ViewerUpdateVisiblePages(Sched, visible, ViewerCx))
  /\ UNCHANGED <<viewerDoc, totalPages, scale, canvas, renderedPages, resizes,
                 pendingObs, visible, nEvents>>
  /\ UNCHANGED notViewer

\* The user scrolls; the scroll listener sets its timeout
ViewerScroll(v) ==
  /\ nEvents < MaxEvents
  /\ v \in (SUBSET PageIndices) \ {{}}
  /\ v # visible
  /\ visible' = v
  /\ pendingObs' = pendingObs \cup ((v \ visible) \cap PagesOf(totalPages))
  /\ timers' = timers + 1
  /\ nEvents' = nEvents + 1
  /\ UNCHANGED <<viewerDoc, totalPages, scale, canvas, renderedPages, renderQueue,
                 isRendering, jobs, resizes>>
  /\ UNCHANGED notViewer

\* The observer callback: entries.forEach(... self.queueRender(pageNum))
ViewerObserverFires ==
  /\ pendingObs # {}
  /\ pendingObs' = {}
  /\ Commit(ViewerQueueFrom(Sched, 0, pendingObs \cap visible, ViewerCx))
  /\ UNCHANGED <<viewerDoc, totalPages, scale, canvas, renderedPages, timers,
                 resizes, visible, nEvents>>
  /\ UNCHANGED notViewer

\* Viewer.renderPage: page.render resolved; the captured canvas gets
\* renderedScale = self.scale, and drawRedactionBoxes(pageNum) raises a
\* TypeError when the page has no wrapper any more
ViewerRenderDone(j) ==
  /\ j \in jobs
  /\ canvas' = IF j.doc = viewerDoc
               THEN [canvas EXCEPT ![j.page] = Img(j.doc, scale)]
               ELSE canvas
  /\ LET st == [Sched EXCEPT !.jobs = @ \ {j}]
         cx == [ViewerCx EXCEPT !.shown = canvas']
     IN Commit(IF j.page >= totalPages THEN ViewerCatch(st, cx)
               ELSE ViewerThen(st, cx))
  /\ UNCHANGED <<viewerDoc, totalPages, scale, renderedPages, timers, resizes,
                 pendingObs, visible, nEvents>>
  /\ UNCHANGED notViewer

\* getPage or page.render rejects
ViewerRenderFail(j) ==
  /\ j \in jobs
  /\ Commit(ViewerCatch([Sched EXCEPT !.jobs = @ \ {j}], ViewerCx))
  /\ UNCHANGED <<viewerDoc, totalPages, scale, canvas, renderedPages, timers,
                 resizes, pendingObs, visible, nEvents>>
  /\ UNCHANGED notViewer

PDFViewerNext ==
  \/ \E n \in 1..MaxPages : ViewerRefresh(n)
  \/ \E z \in Scales : ViewerRerenderAllPages(z)
  \/ ViewerTimerFires
  \/ \E v \in SUBSET PageIndices : ViewerScroll(v)
  \/ ViewerObserverFires
  \/ \E j \in jobs : ViewerRenderDone(j)
  \/ \E j \in jobs : ViewerRenderFail(j)

PDFViewerStart ==
  /\ ViewerLoad /\ AppIdle /\ BoxIdle /\ TwinIdle /\ OpsIdle /\ LoadIdle
  /\ SigIdle /\ StoreIdle

PDFViewerSpec == PDFViewerStart /\ [][PDFViewerNext]_vars

\* C34: isRendering is true only while a render job is running, after any
\* sequence of queue requests, refreshes, zoom changes and render
\* completions or failures
C34_RenderingOnlyWhileJobRuns == isRendering => jobs # {}

-----------------------------------------------------------------------------
\* C35: a step of the redaction view between two requests (a box drawn or
\* removed, a page navigation, a clear) leaves the box list of every page
\* other than the page on display as it was
C35_OnlyShownPageChanges ==
  [][(reqs = <<>> /\ reqs' = <<>>) =>
       \A p \in PageIndices \ {currentRedactPage} :
         redactionBoxes'[p] = redactionBoxes[p]]_vars

\* C36: when a request has ended without an error and no request was started
\* since, a request that makes a new document object current has built it
\* from the document that is current, which holds what the ended request did
C36_NoMutationLost ==
  [][\A k \in 1..Len(reqs) :
       (/\ last.status = "ok"
        /\ pdfDoc' # pdfDoc
        /\ k <= Len(reqs')
        /\ reqs'[k].doc = pdfDoc')
       => reqs[k].doc = pdfDoc]_vars

-----------------------------------------------------------------------------
\* The pages of doc whose index is not in the set named, in their order
PagesNotNamed(doc, named) ==
  LET Stays(i) == (i - 1) \notin named
      kept == SelectSeq([i \in 1..Len(doc) |-> i], Stays)
  IN [k \in 1..Len(kept) |-> doc[kept[k]]]

\* C37: deletePages(pdfDoc, pageIndices) leaves the document it was given
\* without the pages whose index is listed in pageIndices: an index that is
\* no page is ignored and an index listed twice removes one page
C37_DeletesNamedPages ==
  opPc = "deleted" =>
    opOut = PagesNotNamed(opBefore[1], {opArg[k] : k \in 1..Len(opArg)})

-----------------------------------------------------------------------------
\* C38: every page replaced by a redaction that runs alone, on a preview that
\* showed the document as it was, has the displayed width and height it had
\* when the redaction began, whatever its rotation
C38_RedactionKeepsDisplayedSize ==
  \A k \in 1..Len(reqs) :
    (/\ reqs[k].op = "redact" /\ ~reqs[k].overlap
     /\ reqs[k].pc \in {"page", "save", "open"}
     /\ reqs[k].jsdoc = getDocument(save(reqs[k].before))) =>
      \A p \in reqs[k].done :
        /\ p < Len(docs[reqs[k].doc])
        /\ getPageDimensions(docs[reqs[k].doc], p)
             = getPageDimensions(reqs[k].before, p)

-----------------------------------------------------------------------------
\* C39: once a load has ended with an error and no load is in flight,
\* state.pdfDoc, state.pdfJsDoc, state.pdfData and state.fileName are those
\* of one file (or of none, when no file was loaded before)
C39_FailedLoadKeepsState ==
  (loads = <<>> /\ loadLast.status = "error") =>
    /\ loadedDoc.file = pdfData
    /\ loadedJsDoc.file = pdfData
    /\ fileName = pdfData.name

-----------------------------------------------------------------------------
\* The part of the box that lies on the page [0, pageWidth] x [0, pageHeight]
Intersection(box, pageWidth, pageHeight) ==
  LET left == Max(0, box.x)
      top == Max(0, box.y)
      right == Min(pageWidth, box.x + box.width)
      bottom == Min(pageHeight, box.y + box.height)
  IN [x |-> left, y |-> top, width |-> right - left, height |-> bottom - top]

\* C40: validateRedactionBoxes returns, in the order of its input, the
\* intersection with the page of every box that has an area, without the
\* boxes of which nothing lies on the page
C40_BoxesClippedToPage ==
  opPc = "validated" =>
    LET pageWidth == getPageDimensions(opDocs[1], 0).width
        pageHeight == getPageDimensions(opDocs[1], 0).height
        kept == SelectSeq(opArg, HasArea)
        parts == [k \in 1..Len(kept) |->
                    Intersection(kept[k], pageWidth, pageHeight)]
    IN opOut = SelectSeq(parts, HasArea)

====
